---- MODULE Spec2Model ----
(***************************************************************************)
(* Model of the coal document-store access layer: the Store transaction   *)
(* boundary (Store.T) and the Manager's CRUD operations with their         *)
(* transaction and locking checks.                                         *)
(*                                                                         *)
(* The database is modelled as documented at Store.T: a transaction reads  *)
(* and writes the data committed prior to its start (snapshot), a write    *)
(* that conflicts with another transactional write returns an error and    *)
(* the transaction is lost, and a non-transactional write waits for the    *)
(* transactions that hold the document.                                    *)
(***************************************************************************)
EXTENDS Integers, Sequences, FiniteSets, TLC

\* ---------------------------------------------------------------- bounds
MaxDocs == 2
MaxTxn == 2
MaxOpsT == 3
MaxDepth == 1
MaxDocsT == 1
MaxBatch == 3
MaxChanges == 2
MaxFeed == 1
MaxLog == 4
MaxClose == 2
MaxCalls == 3

\* ------------------------------------------------------------- constants
NoTransaction == 1
NoValidation == 2
TextScoreSort == 4
LockBump == 1000

Ids == 1..MaxDocs
ZeroID == 0
Txns == 1..MaxTxn
NoTx == 0
Titles == {"A", "B"}

VARIABLES committed, tstate, local, wset, stale, depth, ntok, nops, last, hist,
          iter, stream, stores, idcall, flagcall, glut, spark

\* the state of the packages beside the Manager, the Stream and the Store
extVars == <<idcall, flagcall, glut, spark>>

vars ==
  <<committed, tstate, local, wset, stale, depth, ntok, nops, last, hist,
    iter, stream, stores, extVars>>

\* ------------------------------------------------------------- documents
Doc(lk, title, tk) == [ex |-> TRUE, lk |-> lk, title |-> title, tk |-> tk]

NoDoc == [ex |-> FALSE, lk |-> 0, title |-> "A", tk |-> 0]

\* the model's Validate hook: a title of "B" stands for an invalid model
Validate(doc) == doc.title # "B"

\* ----------------------------------------------------------------- flags
RECURSIVE BitAnd(_, _)
BitAnd(a, b) ==
  IF a = 0 \/ b = 0 THEN 0
  ELSE (IF a % 2 = 1 /\ b % 2 = 1 THEN 1 ELSE 0) + 2 * BitAnd(a \div 2, b \div 2)

RECURSIVE BitOr(_, _)
BitOr(a, b) ==
  IF a = 0 THEN b
  ELSE IF b = 0 THEN a
  ELSE (IF a % 2 = 1 \/ b % 2 = 1 THEN 1 ELSE 0) + 2 * BitOr(a \div 2, b \div 2)

\* a Has that is content with one of the flags
Has_Any(f, flags) == BitAnd(f, flags) # 0

Has(f, flags) == BitAnd(f, flags) = flags

RECURSIVE Merge(_)
Merge(flags) ==
  IF flags = <<>> THEN 0
  ELSE BitOr(Merge(SubSeq(flags, 1, Len(flags) - 1)), flags[Len(flags)])

FlagLists ==
  {<<>>, <<NoTransaction>>, <<NoValidation, TextScoreSort>>,
   <<NoValidation, NoTransaction>>}

\* --------------------------------------------------------------- context
HasTransaction(c) == c # NoTx

View(c) == IF c = NoTx THEN committed ELSE local[c]

\* the session's transaction is gone on the server (after a write conflict)
Dead(c) == c # NoTx /\ tstate[c] = "failed"

Running(t) == tstate[t] \in {"active", "failed"}

\* a transactional write of the documents ids by c conflicts with a write
\* committed since c's snapshot or pending in another transaction
Conflict(c, ids) ==
  /\ c # NoTx
  /\ \/ ids \cap stale[c] # {}
     \/ \E u \in Txns \ {c} : tstate[u] = "active" /\ ids \cap wset[u] # {}

\* --------------------------------------------------------------- filters
FAll == [kind |-> "all", id |-> 0, title |-> "A"]
FBad == [kind |-> "bad", id |-> 0, title |-> "A"]
FTitle(t) == [kind |-> "title", id |-> 0, title |-> t]
FId(i) == [kind |-> "id", id |-> i, title |-> "A"]

Filters == {FAll, FBad, FTitle("A")}

Sorts == {"none", "desc", "bad"}
BulkSorts == {"none", "bad"}

Updates == Titles \cup {"bad"}

Match(v, f) ==
  {d \in Ids : /\ v[d].ex
               /\ \/ f.kind = "all"
                  \/ f.kind = "title" /\ v[d].title = f.title
                  \/ f.kind = "id" /\ d = f.id}

SetMin(S) == CHOOSE x \in S : \A y \in S : x <= y
SetMax(S) == CHOOSE x \in S : \A y \in S : x >= y

RECURSIVE Ordered(_, _)
Ordered(S, sort) ==
  IF S = {} THEN <<>>
  ELSE LET x == IF sort = "desc" THEN SetMax(S) ELSE SetMin(S)
       IN <<x>> \o Ordered(S \ {x}, sort)

\* the documents a read with skip and limit returns, in order
Window(S, sort, skip, limit) ==
  LET o == Ordered(S, sort)
      hi == IF limit > 0 /\ skip + limit < Len(o) THEN skip + limit ELSE Len(o)
  IN SubSeq(o, skip + 1, hi)

\* an update that writes the increment over the lock counter
ApplyUpdate_SetLock(doc, upd, inc) ==
  [doc EXCEPT !.title = IF upd \in Titles THEN upd ELSE @, !.lk = inc]

ApplyUpdate(doc, upd, inc) ==
  [doc EXCEPT !.title = IF upd \in Titles THEN upd ELSE @, !.lk = @ + inc]

\* -------------------------------------------------- database operations
DbErr(e, c, calls, confl) ==
  [err |-> e, doc |-> NoDoc, view |-> View(c), ids |-> {}, n |-> 0,
   calls |-> calls, confl |-> confl, up |-> FALSE]

DbOk(doc, view, ids, n, calls, up) ==
  [err |-> "none", doc |-> doc, view |-> view, ids |-> ids, n |-> n,
   calls |-> calls, confl |-> FALSE, up |-> up]

DbFindOne(c, S, sort, skip, drv) ==
  IF drv \/ Dead(c) THEN DbErr("Driver", c, <<"FindOne">>, FALSE)
  ELSE LET o == Ordered(S, sort)
       IN IF Len(o) > skip
          THEN DbOk(View(c)[o[skip + 1]], View(c), {}, 1, <<"FindOne">>, FALSE)
          ELSE DbErr("missing", c, <<"FindOne">>, FALSE)

\* FindOneAndUpdate returning the document before the update (what C3 rules
\* out)
DbFindOneAndUpdate_ReturnBefore(c, S, sort, upd, inc, drv) ==
  IF drv \/ Dead(c) THEN DbErr("Driver", c, <<"FindOneAndUpdate">>, FALSE)
  ELSE IF S = {} THEN DbErr("missing", c, <<"FindOneAndUpdate">>, FALSE)
  ELSE LET d == Ordered(S, sort)[1]
           nd == ApplyUpdate(View(c)[d], upd, inc)
       IN IF Conflict(c, {d})
          THEN DbErr("Driver", c, <<"FindOneAndUpdate">>, TRUE)
          ELSE DbOk(View(c)[d], [View(c) EXCEPT ![d] = nd], {d}, 1,
                    <<"FindOneAndUpdate">>, FALSE)

\* FindOneAndUpdate returning the document after the update
DbFindOneAndUpdate(c, S, sort, upd, inc, drv) ==
  IF drv \/ Dead(c) THEN DbErr("Driver", c, <<"FindOneAndUpdate">>, FALSE)
  ELSE IF S = {} THEN DbErr("missing", c, <<"FindOneAndUpdate">>, FALSE)
  ELSE LET d == Ordered(S, sort)[1]
           nd == ApplyUpdate(View(c)[d], upd, inc)
       IN IF Conflict(c, {d})
          THEN DbErr("Driver", c, <<"FindOneAndUpdate">>, TRUE)
          ELSE DbOk(nd, [View(c) EXCEPT ![d] = nd], {d}, 1,
                    <<"FindOneAndUpdate">>, FALSE)

DbUpdateMany(c, S, upd, inc, drv) ==
  IF drv \/ Dead(c) THEN DbErr("Driver", c, <<"UpdateMany">>, FALSE)
  ELSE IF Conflict(c, S) THEN DbErr("Driver", c, <<"UpdateMany">>, TRUE)
  ELSE DbOk(NoDoc,
            [d \in Ids |-> IF d \in S THEN ApplyUpdate(View(c)[d], upd, inc)
                           ELSE View(c)[d]],
            S, Cardinality(S), <<"UpdateMany">>, FALSE)

DbFindOneAndDelete(c, S, sort, drv) ==
  IF drv \/ Dead(c) THEN DbErr("Driver", c, <<"FindOneAndDelete">>, FALSE)
  ELSE IF S = {} THEN DbErr("missing", c, <<"FindOneAndDelete">>, FALSE)
  ELSE LET d == Ordered(S, sort)[1]
       IN IF Conflict(c, {d})
          THEN DbErr("Driver", c, <<"FindOneAndDelete">>, TRUE)
          ELSE DbOk(View(c)[d], [View(c) EXCEPT ![d] = NoDoc], {d}, 1,
                    <<"FindOneAndDelete">>, FALSE)

DbDeleteOne(c, S, drv) ==
  IF drv \/ Dead(c) THEN DbErr("Driver", c, <<"DeleteOne">>, FALSE)
  ELSE IF S = {} THEN DbOk(NoDoc, View(c), {}, 0, <<"DeleteOne">>, FALSE)
  ELSE LET d == Ordered(S, "none")[1]
       IN IF Conflict(c, {d})
          THEN DbErr("Driver", c, <<"DeleteOne">>, TRUE)
          ELSE DbOk(NoDoc, [View(c) EXCEPT ![d] = NoDoc], {d}, 1,
                    <<"DeleteOne">>, FALSE)

\* ReplaceOne: the stored document becomes the model (its _id is kept)
DbReplaceOne(c, S, model, drv) ==
  IF drv \/ Dead(c) THEN DbErr("Driver", c, <<"ReplaceOne">>, FALSE)
  ELSE IF S = {} THEN DbOk(NoDoc, View(c), {}, 0, <<"ReplaceOne">>, FALSE)
  ELSE LET d == Ordered(S, "none")[1]
           nd == Doc(model.lk, model.title, 0)
       IN IF model.id \notin {ZeroID, d} \/ Conflict(c, {d})
          THEN DbErr("Driver", c, <<"ReplaceOne">>, Conflict(c, {d}))
          ELSE DbOk(nd, [View(c) EXCEPT ![d] = nd], {d}, 1,
                    <<"ReplaceOne">>, FALSE)

\* ids that no view holds: where the database may put a new document
FreeIds ==
  {d \in Ids : /\ ~committed[d].ex
               /\ \A t \in Txns : Running(t) => ~local[t][d].ex}

\* ------------------------------------------------------------------ Stream
\* no Stream has been opened
\* ------------------------------------------------------------------- Store
\* the Stores, the model types and the goroutines that call a Store
StoreIds == {"s1", "s2"}
ModelTypes == {"post", "comment"}
Procs == {"p", "q"}

\* no object: what a Load of a sync.Map that misses gives
NoObj == 0

\* a goroutine that is in no call of a Store
Idle == [pc |-> "idle", op |-> "M", store |-> "s1", type |-> "post",
         coll |-> NoObj]

\* the Stores after NewStore: empty maps colls and managers, and no
\* Collection or Manager made yet (objs), none returned (rets)
NoStores ==
  [colls |-> [s \in StoreIds |-> [t \in ModelTypes |-> NoObj]],
   managers |-> [s \in StoreIds |-> [t \in ModelTypes |-> NoObj]],
   objs |-> <<>>,
   procs |-> [p \in Procs |-> Idle],
   rets |-> {},
   ncalls |-> 0]

\* no call of the receiver
NoCall ==
  [ev |-> "none", ret |-> "nil", tok |-> 0, err |-> "none", doc |-> FALSE]

NoStream ==
  [pc |-> "none", opened |-> FALSE, alive |-> FALSE, token |-> 0, pos |-> 0,
   feed |-> <<>>, log |-> <<>>, call |-> NoCall, logged |-> TRUE,
   err |-> "none", down |-> FALSE, start |-> 0, closer |-> "idle",
   closed |-> 0]

\* ------------------------------------------------------- other packages
\* no call of New, IsHex, FromHex or MustFromHex yet: the call, its
\* argument, what it returned, whether it returned an error or panicked,
\* and the id New made last
NoIdCall ==
  [op |-> "none", arg |-> <<>>, ret |-> <<>>, err |-> FALSE,
   panicked |-> FALSE, made |-> <<>>]

\* no call of Merge or Has yet: the flag arguments, the receiver and the
\* argument of Has, and the results
NoFlagCall ==
  [op |-> "none", list |-> <<>>, f |-> 0, g |-> 0, merged |-> 0,
   has |-> FALSE]

\* a time that is nil
NoTime == 0 - 1

\* no value under the key; a stored value has its data (0: nil), its
\* deadline, its lock time and its token ("": nil)
NoValue ==
  [ex |-> FALSE, data |-> 0, deadline |-> NoTime, locked |-> NoTime,
   token |-> ""]

\* no call of glut has returned
NoRet == [op |-> "none", token |-> "", ok |-> FALSE, err |-> "none"]

\* a goroutine that is in no call of glut; in Lock, between InsertIfMissing
\* and UpdateFirst, it has its token, lock time and deadline
NoLock ==
  [pc |-> "idle", token |-> "", locked |-> NoTime, deadline |-> NoTime]

\* the clock, the value stored under the one key looked at, the goroutines,
\* the call that returned last, and the number of calls that have returned
NoGlut ==
  [now |-> 1, val |-> NoValue, procs |-> [p \in {"p", "q"} |-> NoLock],
   ret |-> NoRet, ncalls |-> 0]

\* the spark manager after newManager, with no connection: the tomb is
\* alive and run is in its loop (run), the channels events, subscribes and
\* unsubscribes are empty, subscribes is open (subsOpen), run's map queues
\* is empty; for every handler the content of its queue (buf), how often it
\* was closed (nclose), where the handler is (pc), what it returned (ret)
\* and the last event it took from its queue (seen); the events broadcast
\* so far (nev), and where close is (closer)
NoSpark ==
  [alive |-> TRUE, run |-> "loop", events |-> <<>>, subscribes |-> <<>>,
   subsOpen |-> TRUE, unsubscribes |-> <<>>, queues |-> {},
   buf |-> [h \in {"h1", "h2"} |-> <<>>],
   nclose |-> [h \in {"h1", "h2"} |-> 0],
   pc |-> [h \in {"h1", "h2"} |-> "idle"],
   ret |-> [h \in {"h1", "h2"} |-> "none"],
   seen |-> [h \in {"h1", "h2"} |-> 0],
   nev |-> 0, closer |-> "idle"]

ExtIdle ==
  /\ idcall = NoIdCall
  /\ flagcall = NoFlagCall
  /\ glut = NoGlut
  /\ spark = NoSpark

\* ---------------------------------------------------------------- results
\* no ManagedIterator; one has the caller it was made for, the validate
\* field, the documents the cursor has yet to load and the loaded document
NoIter ==
  [open |-> FALSE, c |-> NoTx, validate |-> FALSE, docs |-> <<>>,
   cur |-> NoDoc, loaded |-> FALSE]

Out(err, found, n, model, r) ==
  [err |-> err, found |-> found, n |-> n, model |-> model, view |-> r.view,
   ids |-> r.ids, calls |-> r.calls, confl |-> r.confl, ntok |-> ntok,
   iter |-> NoIter]

Fail(c, e) == Out(e, FALSE, 0, NoDoc, DbErr(e, c, <<>>, FALSE))

\* no error is taken for the error of a missing document (what C7 rules out)
IsMissing_Never(err) == FALSE

IsMissing(err) == err = "missing"

\* the tail of the single-document operations: missing, error, validation
Single(c, r, validate) ==
  IF IsMissing(r.err) THEN Out("none", FALSE, 0, NoDoc, r)
  ELSE IF r.err # "none" THEN Out(r.err, FALSE, 0, NoDoc, r)
  ELSE IF validate /\ ~Validate(r.doc) THEN Out("Validation", FALSE, 0, r.doc, r)
  ELSE Out("none", TRUE, 1, r.doc, r)

\* the inputs of a call that the result record keeps (batch, stored: the
\* models of an Insert or InsertAll as handed in and as they are afterwards)
In(lock, flags, skip, limit, q, upd, drv) ==
  [lock |-> lock, flags |-> Merge(flags), skip |-> skip, limit |-> limit,
   q |-> q, upd |-> upd, drv |-> drv, cb |-> "none", batch |-> <<>>,
   stored |-> <<>>, mdl |-> "ok"]

Rec(op, c, a, err, found, n, model, calls) ==
  [op |-> op, c |-> c, lock |-> a.lock, flags |-> a.flags, skip |-> a.skip,
   limit |-> a.limit, q |-> a.q, upd |-> a.upd, drv |-> a.drv, cb |-> a.cb,
   batch |-> a.batch, stored |-> a.stored, mdl |-> a.mdl, err |-> err,
   found |-> found,
   n |-> n, model |-> model, calls |-> calls]

\* what the transactions have done so far (history, read by the properties
\* only): rd[t], flk[t]: the documents t has read with Find without and with
\* lock; fence[t]: the documents locked by a Find of a transaction that
\* committed while t was running; doomed[t]: t has read a document without
\* lock and written it by Update after it was fenced; jerr[t]: a callback
\* joined to t has returned an error; ins[t]: the filters and ids of the
\* documents that InsertIfMissing calls of t have inserted
NoHist ==
  [rd |-> {}, flk |-> {}, fence |-> {}, doomed |-> FALSE, jerr |-> FALSE,
   ins |-> {}]

Track(op, c, a, o) ==
  IF c = NoTx THEN hist
  ELSE [hist EXCEPT
          ![c].rd = IF op = "Find" /\ ~a.lock /\ o.found
                    THEN @ \cup {a.q.id} ELSE @,
          ![c].flk = IF op = "Find" /\ a.lock /\ o.found
                     THEN @ \cup {a.q.id} ELSE @,
          ![c].ins = IF op = "InsertIfMissing" /\ o.found
                     THEN @ \cup {<<a.q, a.stored[1].id>>} ELSE @,
          ![c].doomed = \/ @
                        \/ /\ op = "Update"
                           /\ a.q.id \in hist[c].rd \cap hist[c].fence]

\* a caller can make a call: its callback is running and calls are left
CanCall(c) == (c # NoTx => Running(c)) /\ nops > 0

\* the effect of one Manager call by caller c on the state
Apply(op, c, a, o) ==
  /\ CanCall(c)
  /\ nops' = nops - 1
  /\ last' = Rec(op, c, a, o.err, o.found, o.n, o.model, o.calls)
  /\ ntok' = o.ntok
  /\ hist' = Track(op, c, a, o)
  /\ iter' = IF op = "FindEach" /\ o.err = "none" THEN o.iter ELSE iter
  /\ UNCHANGED <<depth, stream, stores, extVars>>
  /\ IF o.confl
     THEN /\ tstate' = [tstate EXCEPT ![c] = "failed"]
          /\ UNCHANGED <<committed, local, wset, stale>>
     ELSE IF c = NoTx
     THEN /\ \A t \in Txns : tstate[t] = "active" => o.ids \cap wset[t] = {}
          /\ committed' = o.view
          /\ stale' = [t \in Txns |->
                         IF Running(t) THEN stale[t] \cup o.ids ELSE stale[t]]
          /\ UNCHANGED <<tstate, local, wset>>
     ELSE /\ local' = [local EXCEPT ![c] = o.view]
          /\ wset' = [wset EXCEPT ![c] = @ \cup o.ids]
          /\ UNCHANGED <<committed, tstate, stale>>

\* ------------------------------------------------------ Manager: reads
Models == {"nil", "ok", "other"}
Decoded == {"ok", "other"}

\* Find that reads by FindOne even with lock, so that it writes nothing
\* (what C2 rules out)
Find_LockByFindOne(c, mdl, id, lock, flags, drv) ==
  IF lock /\ ~HasTransaction(c) THEN Fail(c, "TransactionRequired")
  ELSE IF mdl = "other" THEN Fail(c, "MetaMismatch")
  ELSE Single(c, DbFindOne(c, Match(View(c), FId(id)), "none", 0, drv),
              ~Has(Merge(flags), NoValidation))

\* Find that never validates (what C18 rules out)
Find_NoValidate(c, mdl, id, lock, flags, drv) ==
  IF lock /\ ~HasTransaction(c) THEN Fail(c, "TransactionRequired")
  ELSE IF mdl = "other" THEN Fail(c, "MetaMismatch")
  ELSE LET S == Match(View(c), FId(id))
           r == IF lock THEN DbFindOneAndUpdate(c, S, "none", "keep", 1, drv)
                ELSE DbFindOne(c, S, "none", 0, drv)
       IN Single(c, r, FALSE)

Find(c, mdl, id, lock, flags, drv) ==
  IF lock /\ ~HasTransaction(c) THEN Fail(c, "TransactionRequired")
  ELSE IF mdl = "other" THEN Fail(c, "MetaMismatch")
  ELSE LET S == Match(View(c), FId(id))
           r == IF lock THEN DbFindOneAndUpdate(c, S, "none", "keep", 1, drv)
                ELSE DbFindOne(c, S, "none", 0, drv)
       IN Single(c, r, ~Has(Merge(flags), NoValidation))

FindFirst(c, mdl, filter, sort, skip, lock, flags, drv) ==
  IF lock /\ ~HasTransaction(c) THEN Fail(c, "TransactionRequired")
  ELSE IF lock /\ skip > 0 THEN Fail(c, "LockSkip")
  ELSE IF mdl = "other" THEN Fail(c, "MetaMismatch")
  ELSE IF filter.kind = "bad" THEN Fail(c, "Translate")
  ELSE IF sort = "bad" THEN Fail(c, "Translate")
  ELSE LET S == Match(View(c), filter)
           r == IF lock THEN DbFindOneAndUpdate(c, S, sort, "keep", 1, drv)
                ELSE DbFindOne(c, S, sort, skip, drv)
       IN Single(c, r, ~Has(Merge(flags), NoValidation))

\* the bulk read that reads first and increments the counters afterwards
\* (what C4 rules out)
LockThenRead_ReadFirst(c, S, sort, skip, limit, lock, drv, read) ==
  LET u == IF lock THEN DbUpdateMany(c, S, "keep", 1, drv = 2)
           ELSE DbOk(NoDoc, View(c), {}, 0, <<>>, FALSE)
  IN IF drv = 1 \/ Dead(c)
     THEN [DbErr("Driver", c, <<read>>, FALSE) EXCEPT !.view = View(c)]
     ELSE IF u.err # "none" THEN [u EXCEPT !.calls = <<read>> \o @]
     ELSE [u EXCEPT !.n = Len(Window(S, sort, skip, limit)),
                    !.calls = <<read>> \o @]

\* the "lock documents" and "find documents" steps shared by the bulk reads:
\* an UpdateMany with incrementLock when locked, then the read itself; drv
\* names the database call that fails (0: none)
LockThenRead(c, S, sort, skip, limit, lock, drv, read) ==
  LET u == IF lock THEN DbUpdateMany(c, S, "keep", 1, drv = 1)
           ELSE DbOk(NoDoc, View(c), {}, 0, <<>>, FALSE)
      failed == IF lock THEN drv = 2 ELSE drv = 1
  IN IF u.err # "none" THEN u
     ELSE IF failed \/ Dead(c)
     THEN [u EXCEPT !.err = "Driver", !.calls = @ \o <<read>>]
     ELSE [u EXCEPT !.n = Len(Window(S, sort, skip, limit)),
                    !.calls = @ \o <<read>>]

\* the documents a bulk read hands back
Returned(v, S, sort, skip, limit) ==
  {v[Window(S, sort, skip, limit)[i]] :
     i \in 1..Len(Window(S, sort, skip, limit))}

FindAll(c, list, filter, sort, skip, limit, lock, flags, drv) ==
  IF list # "ok" THEN Fail(c, "List")
  ELSE IF (lock \/ ~Has(Merge(flags), NoTransaction)) /\ ~HasTransaction(c)
  THEN Fail(c, "TransactionRequired")
  ELSE IF lock /\ (skip > 0 \/ limit > 0) THEN Fail(c, "LockSkip")
  ELSE IF filter.kind = "bad" THEN Fail(c, "Translate")
  ELSE IF sort = "bad" THEN Fail(c, "Translate")
  ELSE LET S == Match(View(c), filter)
           r == LockThenRead(c, S, sort, skip, limit, lock, drv, "Find")
       IN IF r.err # "none" THEN Out(r.err, FALSE, 0, NoDoc, r)
          ELSE IF /\ ~Has(Merge(flags), NoValidation)
                  /\ \E m \in Returned(r.view, S, sort, skip, limit) :
                        ~Validate(m)
          THEN Out("Validation", FALSE, r.n, NoDoc, r)
          ELSE Out("none", TRUE, r.n, NoDoc, r)

\* FindEach without its check of lock against skip and limit (what C10 rules
\* out)
FindEach_NoSkipCheck(c, filter, sort, skip, limit, lock, flags, drv) ==
  IF (lock \/ ~Has(Merge(flags), NoTransaction)) /\ ~HasTransaction(c)
  THEN Fail(c, "TransactionRequired")
  ELSE IF filter.kind = "bad" THEN Fail(c, "Translate")
  ELSE IF sort = "bad" THEN Fail(c, "Translate")
  ELSE LET S == Match(View(c), filter)
           r == LockThenRead(c, S, sort, skip, limit, lock, drv, "Find")
           W == Window(S, sort, skip, limit)
       IN IF r.err # "none" THEN Out(r.err, FALSE, 0, NoDoc, r)
          ELSE [Out("none", TRUE, r.n, NoDoc, r) EXCEPT
                  !.iter = [open |-> TRUE, c |-> c,
                            validate |-> ~Has(Merge(flags), NoValidation),
                            docs |-> [i \in 1..Len(W) |-> r.view[W[i]]],
                            cur |-> NoDoc, loaded |-> FALSE]]

FindEach(c, filter, sort, skip, limit, lock, flags, drv) ==
  IF (lock \/ ~Has(Merge(flags), NoTransaction)) /\ ~HasTransaction(c)
  THEN Fail(c, "TransactionRequired")
  ELSE IF lock /\ (skip > 0 \/ limit > 0) THEN Fail(c, "LockSkip")
  ELSE IF filter.kind = "bad" THEN Fail(c, "Translate")
  ELSE IF sort = "bad" THEN Fail(c, "Translate")
  ELSE LET S == Match(View(c), filter)
           r == LockThenRead(c, S, sort, skip, limit, lock, drv, "Find")
           W == Window(S, sort, skip, limit)
       IN IF r.err # "none" THEN Out(r.err, FALSE, 0, NoDoc, r)
          ELSE [Out("none", TRUE, r.n, NoDoc, r) EXCEPT
                  !.iter = [open |-> TRUE, c |-> c,
                            validate |-> ~Has(Merge(flags), NoValidation),
                            docs |-> [i \in 1..Len(W) |-> r.view[W[i]]],
                            cur |-> NoDoc, loaded |-> FALSE]]

Fields == {"title", "bad"}

\* each: the callback keeps iterating (ProjectAll, ProjectEach); otherwise
\* it takes the first pair and stops (Project, ProjectFirst)
project(c, filter, field, sort, skip, limit, lock, each, flags, drv) ==
  IF (lock \/ ~Has(Merge(flags), NoTransaction)) /\ ~HasTransaction(c)
  THEN Fail(c, "TransactionRequired")
  ELSE IF lock /\ (skip > 0 \/ limit > 0) THEN Fail(c, "LockSkip")
  ELSE IF filter.kind = "bad" THEN Fail(c, "Translate")
  ELSE IF field = "bad" THEN Fail(c, "Translate")
  ELSE IF sort = "bad" THEN Fail(c, "Translate")
  ELSE LET S == Match(View(c), filter)
           r == LockThenRead(c, S, sort, skip, limit, lock, drv, "Find")
           w == Window(S, sort, skip, limit)
       IN IF r.err # "none" THEN Out(r.err, FALSE, 0, NoDoc, r)
          ELSE IF each THEN Out("none", TRUE, r.n, NoDoc, r)
          ELSE IF w = <<>> THEN Out("none", FALSE, 0, NoDoc, r)
          ELSE Out("none", TRUE, 1, r.view[w[1]], r)

Project(c, id, field, lock, drv) ==
  project(c, FId(id), field, "none", 0, 1, lock, FALSE, <<NoTransaction>>, drv)

ProjectFirst(c, filter, field, sort, skip, lock, drv) ==
  project(c, filter, field, sort, skip, 1, lock, FALSE, <<NoTransaction>>, drv)

ProjectAll(c, filter, field, sort, skip, limit, lock, flags, drv) ==
  project(c, filter, field, sort, skip, limit, lock, TRUE, flags, drv)

ProjectEach(c, filter, field, sort, skip, limit, lock, flags, drv) ==
  project(c, filter, field, sort, skip, limit, lock, TRUE, flags, drv)

\* Count that locks the first matching document only (what C12 rules out)
Count_LockOne(c, filter, skip, limit, lock, flags, drv) ==
  IF (lock \/ ~Has(Merge(flags), NoTransaction)) /\ ~HasTransaction(c)
  THEN Fail(c, "TransactionRequired")
  ELSE IF lock /\ (skip > 0 \/ limit > 0) THEN Fail(c, "LockSkip")
  ELSE IF filter.kind = "bad" THEN Fail(c, "Translate")
  ELSE LET S == Match(View(c), filter)
           F == IF S = {} THEN {} ELSE {SetMin(S)}
       IN IF lock
          THEN LET r == DbUpdateMany(c, F, "keep", 1, drv = 1)
               IN Out(r.err, r.err = "none", r.n, NoDoc, r)
          ELSE LET r == LockThenRead(c, S, "none", skip, limit, FALSE, drv,
                                     "CountDocuments")
               IN Out(r.err, r.err = "none", r.n, NoDoc, r)

\* Count without its check for a transaction (what C9 rules out)
Count_NoTransactionCheck(c, filter, skip, limit, lock, flags, drv) ==
  IF lock /\ (skip > 0 \/ limit > 0) THEN Fail(c, "LockSkip")
  ELSE IF filter.kind = "bad" THEN Fail(c, "Translate")
  ELSE LET S == Match(View(c), filter)
       IN IF lock
          THEN LET r == DbUpdateMany(c, S, "keep", 1, drv = 1)
               IN Out(r.err, r.err = "none", r.n, NoDoc, r)
          ELSE LET r == LockThenRead(c, S, "none", skip, limit, FALSE, drv,
                                     "CountDocuments")
               IN Out(r.err, r.err = "none", r.n, NoDoc, r)

Count(c, filter, skip, limit, lock, flags, drv) ==
  IF (lock \/ ~Has(Merge(flags), NoTransaction)) /\ ~HasTransaction(c)
  THEN Fail(c, "TransactionRequired")
  ELSE IF lock /\ (skip > 0 \/ limit > 0) THEN Fail(c, "LockSkip")
  ELSE IF filter.kind = "bad" THEN Fail(c, "Translate")
  ELSE LET S == Match(View(c), filter)
       IN IF lock
          THEN LET r == DbUpdateMany(c, S, "keep", 1, drv = 1)
               IN Out(r.err, r.err = "none", r.n, NoDoc, r)
          ELSE LET r == LockThenRead(c, S, "none", skip, limit, FALSE, drv,
                                     "CountDocuments")
               IN Out(r.err, r.err = "none", r.n, NoDoc, r)

Distinct(c, field, filter, lock, flags, drv) ==
  IF (lock \/ ~Has(Merge(flags), NoTransaction)) /\ ~HasTransaction(c)
  THEN Fail(c, "TransactionRequired")
  ELSE IF field = "bad" THEN Fail(c, "Translate")
  ELSE IF filter.kind = "bad" THEN Fail(c, "Translate")
  ELSE LET S == Match(View(c), filter)
           r == LockThenRead(c, S, "none", 0, 0, lock, drv, "Distinct")
       IN IF r.err # "none" THEN Out(r.err, FALSE, 0, NoDoc, r)
          ELSE Out("none", TRUE, Cardinality({r.view[d].title : d \in S}),
                   NoDoc, r)

\* ----------------------------------------------------- Manager: writes
\* the models a caller hands to the writing operations
WModels ==
  [meta : {"ok"}, id : Ids \cup {ZeroID}, title : Titles, lk : {0, 1}]
    \cup {[meta |-> "other", id |-> 1, title |-> "A", lk |-> 0]}

\* the models a caller hands to Insert and InsertAll
InsModels ==
  [meta : {"ok"}, id : Ids \cup {ZeroID}, title : Titles, lk : {0}]
    \cup {[meta |-> "other", id |-> ZeroID, title |-> "A", lk |-> 0]}

Batches == UNION {[1..n -> InsModels] : n \in 0..MaxBatch}

\* the batches of at most two models
ShortBatches == {b \in Batches : Len(b) <= 2}

\* the ids New() can give to the models of a batch: held by no document and
\* by no model of the batch
NewIds(models) == FreeIds \ {models[i].id : i \in 1..Len(models)}

\* the first loop of insert: every model up to the first one of another type
\* has an id afterwards, New() giving the zero ids the ids of fresh in turn
RECURSIVE EnsureIds(_, _)
EnsureIds(models, fresh) ==
  IF models = <<>> THEN <<>>
  ELSE IF Head(models).meta # "ok" THEN models
  ELSE IF Head(models).id = ZeroID
  THEN <<[Head(models) EXCEPT !.id = SetMin(fresh)]>>
         \o EnsureIds(Tail(models), fresh \ {SetMin(fresh)})
  ELSE <<Head(models)>> \o EnsureIds(Tail(models), fresh)

\* the bound of the model lets New() serve the batch
CanEnsure(models) ==
  Cardinality({i \in 1..Len(models) : models[i].id = ZeroID})
    <= Cardinality(NewIds(models))

\* an ordered insert into view v: the documents go in one by one up to the
\* first whose id is taken (or written by another transaction); k is the
\* number of documents inserted
RECURSIVE InsertInOrder(_, _, _, _)
InsertInOrder(c, v, docs, k) ==
  IF docs = <<>> THEN [view |-> v, n |-> k, ok |-> TRUE, confl |-> FALSE]
  ELSE IF Conflict(c, {Head(docs).id})
  THEN [view |-> v, n |-> k, ok |-> FALSE, confl |-> TRUE]
  ELSE IF v[Head(docs).id].ex
  THEN [view |-> v, n |-> k, ok |-> FALSE, confl |-> FALSE]
  ELSE InsertInOrder(c,
                     [v EXCEPT ![Head(docs).id] =
                        Doc(Head(docs).lk, Head(docs).title, 0)],
                     Tail(docs), k + 1)

\* an unordered insert: every document whose id is free goes in (what C14
\* rules out)
RECURSIVE InsertInOrder_Unordered(_, _, _, _)
InsertInOrder_Unordered(c, v, docs, k) ==
  IF docs = <<>> THEN [view |-> v, n |-> k, ok |-> TRUE, confl |-> FALSE]
  ELSE IF Conflict(c, {Head(docs).id})
  THEN [view |-> v, n |-> k, ok |-> FALSE, confl |-> TRUE]
  ELSE IF v[Head(docs).id].ex
  THEN [InsertInOrder_Unordered(c, v, Tail(docs), k) EXCEPT !.ok = FALSE]
  ELSE InsertInOrder_Unordered(c,
                     [v EXCEPT ![Head(docs).id] =
                        Doc(Head(docs).lk, Head(docs).title, 0)],
                     Tail(docs), k + 1)

\* InsertMany without SetOrdered(true)
DbInsert_Unordered(c, docs, mode) ==
  LET call == IF Len(docs) > 1 THEN <<"InsertMany">> ELSE <<"InsertOne">>
      r == InsertInOrder_Unordered(c, View(c), docs, 0)
  IN IF mode = 1 \/ Dead(c) THEN DbErr("Driver", c, call, FALSE)
     ELSE IF r.ok
     THEN DbOk(NoDoc, r.view, {docs[i].id : i \in 1..Len(docs)}, r.n, call,
               FALSE)
     ELSE IF r.confl \/ (c # NoTx /\ mode = 2)
     THEN DbErr("Duplicate", c, call, TRUE)
     ELSE [DbErr("Duplicate", c, call, FALSE) EXCEPT
             !.view = r.view,
             !.ids = {docs[i].id : i \in 1..Len(docs)},
             !.n = r.n]

\* InsertOne, or InsertMany with SetOrdered(true); mode 1: the driver fails
\* before anything is stored; mode 2: a rejected document costs a caller
\* inside a transaction the transaction (mode 0: it keeps what is stored)
DbInsert(c, docs, mode) ==
  LET call == IF Len(docs) > 1 THEN <<"InsertMany">> ELSE <<"InsertOne">>
      r == InsertInOrder(c, View(c), docs, 0)
  IN IF mode = 1 \/ Dead(c) THEN DbErr("Driver", c, call, FALSE)
     ELSE IF r.ok
     THEN DbOk(NoDoc, r.view, {docs[i].id : i \in 1..Len(docs)}, r.n, call,
               FALSE)
     ELSE IF r.confl \/ (c # NoTx /\ mode = 2)
     THEN DbErr("Duplicate", c, call, TRUE)
     ELSE [DbErr("Duplicate", c, call, FALSE) EXCEPT
             !.view = r.view,
             !.ids = {docs[i].id : i \in 1..r.n},
             !.n = r.n]

\* insert that validates the first model of the batch only (what C13 rules
\* out)
insert_ValidateFirst(c, models, flags, mode) ==
  IF models = <<>>
  THEN Out("none", TRUE, 0, NoDoc, DbOk(NoDoc, View(c), {}, 0, <<>>, FALSE))
  ELSE IF \E i \in 1..Len(models) : models[i].meta # "ok"
  THEN Fail(c, "MetaMismatch")
  ELSE IF ~Has(Merge(flags), NoValidation) /\ ~Validate(models[1])
  THEN Fail(c, "Validation")
  ELSE LET r == DbInsert(c, EnsureIds(models, NewIds(models)), mode)
       IN Out(r.err, r.err = "none", r.n, NoDoc, r)

insert(c, models, flags, mode) ==
  IF models = <<>>
  THEN Out("none", TRUE, 0, NoDoc, DbOk(NoDoc, View(c), {}, 0, <<>>, FALSE))
  ELSE IF \E i \in 1..Len(models) : models[i].meta # "ok"
  THEN Fail(c, "MetaMismatch")
  ELSE IF /\ ~Has(Merge(flags), NoValidation)
          /\ \E i \in 1..Len(models) : ~Validate(models[i])
  THEN Fail(c, "Validation")
  ELSE LET r == DbInsert(c, EnsureIds(models, NewIds(models)), mode)
       IN Out(r.err, r.err = "none", r.n, NoDoc, r)

Insert(c, model, flags, mode) == insert(c, <<model>>, flags, mode)

InsertAll(c, models, flags, mode) == insert(c, models, flags, mode)

\* UpdateOne with upsert and $setOnInsert that leaves the lock increment out
\* of the document it inserts
DbUpsertModel_InsertAsIs(c, S, model, inc, nid, drv) ==
  IF drv \/ Dead(c) THEN DbErr("Driver", c, <<"UpdateOne">>, FALSE)
  ELSE IF S # {}
  THEN LET d == Ordered(S, "none")[1]
       IN IF inc = 0 THEN DbOk(NoDoc, View(c), {}, 1, <<"UpdateOne">>, FALSE)
          ELSE IF Conflict(c, {d}) THEN DbErr("Driver", c, <<"UpdateOne">>, TRUE)
          ELSE DbOk(NoDoc,
                    [View(c) EXCEPT ![d] = ApplyUpdate(@, "keep", inc)],
                    {d}, 1, <<"UpdateOne">>, FALSE)
  ELSE IF View(c)[nid].ex \/ Conflict(c, {nid})
  THEN DbErr("Driver", c, <<"UpdateOne">>, Conflict(c, {nid}))
  ELSE DbOk(NoDoc,
            [View(c) EXCEPT ![nid] = Doc(model.lk, model.title, 0)],
            {nid}, 0, <<"UpdateOne">>, TRUE)

\* UpdateOne with upsert, $setOnInsert of the model and the lock increment
DbUpsertModel(c, S, model, inc, nid, drv) ==
  IF drv \/ Dead(c) THEN DbErr("Driver", c, <<"UpdateOne">>, FALSE)
  ELSE IF S # {}
  THEN LET d == Ordered(S, "none")[1]
       IN IF inc = 0 THEN DbOk(NoDoc, View(c), {}, 1, <<"UpdateOne">>, FALSE)
          ELSE IF Conflict(c, {d}) THEN DbErr("Driver", c, <<"UpdateOne">>, TRUE)
          ELSE DbOk(NoDoc,
                    [View(c) EXCEPT ![d] = ApplyUpdate(@, "keep", inc)],
                    {d}, 1, <<"UpdateOne">>, FALSE)
  ELSE IF View(c)[nid].ex \/ Conflict(c, {nid})
  THEN DbErr("Driver", c, <<"UpdateOne">>, Conflict(c, {nid}))
  ELSE DbOk(NoDoc,
            [View(c) EXCEPT ![nid] = Doc(model.lk + inc, model.title, 0)],
            {nid}, 0, <<"UpdateOne">>, TRUE)

\* InsertIfMissing that takes the insert of another running transaction
\* for the same filter for a match (what C16 rules out)
InsertIfMissing_SeesOthers(c, filter, model, lock, flags, nid, drv) ==
  IF lock /\ ~HasTransaction(c) THEN Fail(c, "TransactionRequired")
  ELSE IF filter.kind = "bad" THEN Fail(c, "Translate")
  ELSE IF model.meta # "ok" THEN Fail(c, "MetaMismatch")
  ELSE IF ~Has(Merge(flags), NoValidation) /\ ~Validate(model)
  THEN Fail(c, "Validation")
  ELSE IF \E u \in Txns \ {c} :
            tstate[u] = "active" /\ \E p \in hist[u].ins : p[1] = filter
  THEN Out("none", FALSE, 1, NoDoc,
           DbOk(NoDoc, View(c), {}, 1, <<"UpdateOne">>, FALSE))
  ELSE LET id == IF model.id = ZeroID THEN nid ELSE model.id
           r == DbUpsertModel(c, Match(View(c), filter), model,
                              IF lock THEN 1 ELSE 0, id, drv)
       IN Out(r.err, r.err = "none" /\ r.up, r.n, NoDoc, r)

\* nid: the id New() generates when the model has a zero id
InsertIfMissing(c, filter, model, lock, flags, nid, drv) ==
  IF lock /\ ~HasTransaction(c) THEN Fail(c, "TransactionRequired")
  ELSE IF filter.kind = "bad" THEN Fail(c, "Translate")
  ELSE IF model.meta # "ok" THEN Fail(c, "MetaMismatch")
  ELSE IF ~Has(Merge(flags), NoValidation) /\ ~Validate(model)
  THEN Fail(c, "Validation")
  ELSE LET id == IF model.id = ZeroID THEN nid ELSE model.id
           r == DbUpsertModel(c, Match(View(c), filter), model,
                              IF lock THEN 1 ELSE 0, id, drv)
       IN Out(r.err, r.err = "none" /\ r.up, r.n, NoDoc, r)

\* Replace without its check for a transaction (what C1 rules out)
Replace_NoTransactionCheck(c, model, lock, flags, drv) ==
  IF model.meta # "ok" THEN Fail(c, "MetaMismatch")
  ELSE IF model.id = ZeroID THEN Fail(c, "ZeroID")
  ELSE IF ~Has(Merge(flags), NoValidation) /\ ~Validate(model)
  THEN Fail(c, "Validation")
  ELSE LET m == [model EXCEPT !.lk = IF lock THEN @ + LockBump ELSE @]
           r == DbReplaceOne(c, Match(View(c), FId(m.id)), m, drv)
       IN Out(r.err, r.err = "none" /\ r.n = 1, r.n, r.doc, r)

Replace(c, model, lock, flags, drv) ==
  IF model.meta # "ok" THEN Fail(c, "MetaMismatch")
  ELSE IF model.id = ZeroID THEN Fail(c, "ZeroID")
  ELSE IF lock /\ ~HasTransaction(c) THEN Fail(c, "TransactionRequired")
  ELSE IF ~Has(Merge(flags), NoValidation) /\ ~Validate(model)
  THEN Fail(c, "Validation")
  ELSE LET m == [model EXCEPT !.lk = IF lock THEN @ + LockBump ELSE @]
           r == DbReplaceOne(c, Match(View(c), FId(m.id)), m, drv)
       IN Out(r.err, r.err = "none" /\ r.n = 1, r.n, r.doc, r)

\* ReplaceFirst that raises the lock counter by 1, as the other operations
\* do (what C17 rules out)
ReplaceFirst_IncByOne(c, filter, model, lock, flags, drv) ==
  IF model.meta # "ok" THEN Fail(c, "MetaMismatch")
  ELSE IF lock /\ ~HasTransaction(c) THEN Fail(c, "TransactionRequired")
  ELSE IF ~Has(Merge(flags), NoValidation) /\ ~Validate(model)
  THEN Fail(c, "Validation")
  ELSE IF filter.kind = "bad" THEN Fail(c, "Translate")
  ELSE LET m == [model EXCEPT !.lk = IF lock THEN @ + 1 ELSE @]
           r == DbReplaceOne(c, Match(View(c), filter), m, drv)
       IN Out(r.err, r.err = "none" /\ r.n = 1, r.n, r.doc, r)

ReplaceFirst(c, filter, model, lock, flags, drv) ==
  IF model.meta # "ok" THEN Fail(c, "MetaMismatch")
  ELSE IF lock /\ ~HasTransaction(c) THEN Fail(c, "TransactionRequired")
  ELSE IF ~Has(Merge(flags), NoValidation) /\ ~Validate(model)
  THEN Fail(c, "Validation")
  ELSE IF filter.kind = "bad" THEN Fail(c, "Translate")
  ELSE LET m == [model EXCEPT !.lk = IF lock THEN @ + LockBump ELSE @]
           r == DbReplaceOne(c, Match(View(c), filter), m, drv)
       IN Out(r.err, r.err = "none" /\ r.n = 1, r.n, r.doc, r)

Update(c, mdl, id, update, lock, drv) ==
  IF lock /\ ~HasTransaction(c) THEN Fail(c, "TransactionRequired")
  ELSE IF mdl = "other" THEN Fail(c, "MetaMismatch")
  ELSE IF update = "bad" THEN Fail(c, "Translate")
  ELSE Single(c, DbFindOneAndUpdate(c, Match(View(c), FId(id)), "none",
                                    update, IF lock THEN 1 ELSE 0, drv),
              FALSE)

UpdateFirst(c, mdl, filter, update, sort, lock, drv) ==
  IF lock /\ ~HasTransaction(c) THEN Fail(c, "TransactionRequired")
  ELSE IF mdl = "other" THEN Fail(c, "MetaMismatch")
  ELSE IF filter.kind = "bad" THEN Fail(c, "Translate")
  ELSE IF update = "bad" THEN Fail(c, "Translate")
  ELSE IF sort = "bad" THEN Fail(c, "Translate")
  ELSE Single(c, DbFindOneAndUpdate(c, Match(View(c), filter), sort,
                                    update, IF lock THEN 1 ELSE 0, drv),
              FALSE)

UpdateAll(c, filter, update, lock, drv) ==
  IF lock /\ ~HasTransaction(c) THEN Fail(c, "TransactionRequired")
  ELSE IF filter.kind = "bad" THEN Fail(c, "Translate")
  ELSE IF update = "bad" THEN Fail(c, "Translate")
  ELSE LET r == DbUpdateMany(c, Match(View(c), filter), update,
                             IF lock THEN 1 ELSE 0, drv)
       IN Out(r.err, r.err = "none", r.n, NoDoc, r)

\* FindOneAndUpdate with upsert: the inserted document takes the equality
\* fields of the filter, then the update, then $setOnInsert (the token)
DbFindOneAndUpsert(c, S, filter, sort, upd, inc, token, nid, drv) ==
  IF S # {} THEN DbFindOneAndUpdate(c, S, sort, upd, inc, drv)
  ELSE IF drv \/ Dead(c) THEN DbErr("Driver", c, <<"FindOneAndUpdate">>, FALSE)
  ELSE LET nd == Doc(inc, IF upd \in Titles THEN upd ELSE filter.title, token)
       IN DbOk(nd, [View(c) EXCEPT ![nid] = nd], {nid}, 1,
               <<"FindOneAndUpdate">>, TRUE)

\* Upsert that takes any token on the returned document for its own (what C8
\* rules out)
Upsert_AnyToken(c, mdl, filter, update, sort, lock, nid, drv) ==
  IF lock /\ ~HasTransaction(c) THEN Fail(c, "TransactionRequired")
  ELSE IF mdl = "other" THEN Fail(c, "MetaMismatch")
  ELSE IF filter.kind = "bad" THEN Fail(c, "Translate")
  ELSE IF update = "bad" THEN Fail(c, "Translate")
  ELSE IF sort = "bad" THEN Fail(c, "Translate")
  ELSE LET token == ntok + 1
           r == DbFindOneAndUpsert(c, Match(View(c), filter), filter, sort,
                                   update, IF lock THEN 1 ELSE 0, token, nid,
                                   drv)
           o == IF IsMissing(r.err) THEN Out("none", FALSE, 0, NoDoc, r)
                ELSE IF r.err # "none" THEN Out(r.err, FALSE, 0, NoDoc, r)
                ELSE Out("none", r.doc.tk # 0, 1, r.doc, r)
       IN [o EXCEPT !.ntok = token]

\* nid: the _id the database gives an inserted document
Upsert(c, mdl, filter, update, sort, lock, nid, drv) ==
  IF lock /\ ~HasTransaction(c) THEN Fail(c, "TransactionRequired")
  ELSE IF mdl = "other" THEN Fail(c, "MetaMismatch")
  ELSE IF filter.kind = "bad" THEN Fail(c, "Translate")
  ELSE IF update = "bad" THEN Fail(c, "Translate")
  ELSE IF sort = "bad" THEN Fail(c, "Translate")
  ELSE LET token == ntok + 1
           r == DbFindOneAndUpsert(c, Match(View(c), filter), filter, sort,
                                   update, IF lock THEN 1 ELSE 0, token, nid,
                                   drv)
           o == IF IsMissing(r.err) THEN Out("none", FALSE, 0, NoDoc, r)
                ELSE IF r.err # "none" THEN Out(r.err, FALSE, 0, NoDoc, r)
                ELSE Out("none", r.doc.tk = token, 1, r.doc, r)
       IN [o EXCEPT !.ntok = token]

Delete(c, mdl, id, drv) ==
  IF mdl = "nil"
  THEN LET r == DbDeleteOne(c, Match(View(c), FId(id)), drv)
       IN Out(r.err, r.err = "none" /\ r.n = 1, r.n, NoDoc, r)
  ELSE IF mdl = "other" THEN Fail(c, "MetaMismatch")
  ELSE Single(c, DbFindOneAndDelete(c, Match(View(c), FId(id)), "none", drv),
              FALSE)

DeleteFirst(c, mdl, filter, sort, drv) ==
  IF filter.kind = "bad" THEN Fail(c, "Translate")
  ELSE IF mdl = "other" THEN Fail(c, "MetaMismatch")
  ELSE IF sort = "bad" THEN Fail(c, "Translate")
  ELSE Single(c, DbFindOneAndDelete(c, Match(View(c), filter), sort, drv),
              FALSE)

\* ------------------------------------------------------------- Store.T
CbErrs == {"none", "cb"}

\* the record of a step of T: cb is what the callback returned, n the number
\* of documents written inside the transaction
TRec(op, t, cb, err, calls) ==
  Rec(op, t, [In(FALSE, <<>>, 0, 0, FAll, "keep", FALSE) EXCEPT !.cb = cb],
      err, FALSE, IF t = NoTx THEN 0 ELSE Cardinality(wset[t]), NoDoc, calls)

NoView == [d \in Ids |-> NoDoc]

\* T is entered with context c; t is the session it starts when c carries no
\* transaction (every session serves one T); drv: StartTransaction fails
TCall(c, t, drv) ==
  IF HasTransaction(c)
  THEN /\ Running(c)
       /\ depth[c] < MaxDepth
       /\ depth' = [depth EXCEPT ![c] = @ + 1]
       /\ last' = TRec("T.join", c, "none", "none", <<>>)
       /\ UNCHANGED <<committed, tstate, local, wset, stale, ntok, nops, hist,
                      iter, stream, stores, extVars>>
  ELSE /\ tstate[t] = "idle"
       /\ IF drv
          THEN /\ tstate' = [tstate EXCEPT ![t] = "done"]
               /\ last' = TRec("T", t, "none", "Driver",
                                <<"StartTransaction">>)
               /\ UNCHANGED <<committed, local, wset, stale, depth, ntok, iter,
                              nops, hist, stream, stores, extVars>>
          ELSE /\ tstate' = [tstate EXCEPT ![t] = "active"]
               /\ local' = [local EXCEPT ![t] = committed]
               /\ hist' = [hist EXCEPT ![t] = NoHist]
               /\ last' = TRec("T.start", t, "none", "none",
                                <<"StartTransaction">>)
               /\ UNCHANGED <<committed, wset, stale, depth, ntok, nops,
                              iter, stream, stores, extVars>>

\* a joined T that aborts the transaction when its callback returns an error
\* (what C6 rules out)
TJoinReturn_Aborts(t, e) ==
  /\ Running(t)
  /\ depth[t] > 0
  /\ depth' = [depth EXCEPT ![t] = @ - 1]
  /\ last' = TRec("T.joined", t, e, e,
                  IF e # "none" THEN <<"AbortTransaction">> ELSE <<>>)
  /\ hist' = [hist EXCEPT ![t].jerr = @ \/ e # "none"]
  /\ tstate' = [tstate EXCEPT ![t] = IF e # "none" THEN "failed" ELSE @]
  /\ UNCHANGED <<committed, local, wset, stale, ntok, nops, iter, stream, stores, extVars>>

\* the callback of a joined T returns e: T returns fn(ctx) as it is
TJoinReturn(t, e) ==
  /\ Running(t)
  /\ depth[t] > 0
  /\ depth' = [depth EXCEPT ![t] = @ - 1]
  /\ last' = TRec("T.joined", t, e, e, <<>>)
  /\ hist' = [hist EXCEPT ![t].jerr = @ \/ e # "none"]
  /\ UNCHANGED <<committed, tstate, local, wset, stale, ntok, nops, iter,
                 stream, stores, extVars>>

Commit(t) == [d \in Ids |-> IF d \in wset[t] THEN local[t][d] ELSE committed[d]]

\* T that answers an error of the callback with an error of its own (what
\* C5 rules out)
TReturn_GenericAbort(t, e, drv) ==
  /\ Running(t)
  /\ depth[t] = 0
  /\ tstate' = [tstate EXCEPT ![t] = "done"]
  /\ local' = [local EXCEPT ![t] = NoView]
  /\ wset' = [wset EXCEPT ![t] = {}]
  /\ UNCHANGED <<depth, ntok, iter, stream, stores, extVars>>
  /\ IF e # "none" \/ drv \/ tstate[t] = "failed"
     THEN /\ last' = TRec("T", t, e, "Driver",
                          IF e # "none" THEN <<"AbortTransaction">>
                          ELSE <<"CommitTransaction">>)
          /\ stale' = [stale EXCEPT ![t] = {}]
          /\ UNCHANGED <<committed, hist>>
     ELSE /\ last' = TRec("T", t, e, "none", <<"CommitTransaction">>)
          /\ committed' = Commit(t)
          /\ hist' = [u \in Txns |->
                        IF u # t /\ Running(u)
                        THEN [hist[u] EXCEPT !.fence = @ \cup hist[t].flk]
                        ELSE hist[u]]
          /\ stale' = [u \in Txns |->
                         IF u = t THEN {}
                         ELSE IF Running(u) THEN stale[u] \cup wset[t]
                         ELSE stale[u]]

\* the callback of the T that started session t returns e; drv: the commit
\* fails on the way (the calls left, nops, are the specification's to set)
TReturn(t, e, drv) ==
  /\ Running(t)
  /\ depth[t] = 0
  /\ tstate' = [tstate EXCEPT ![t] = "done"]
  /\ local' = [local EXCEPT ![t] = NoView]
  /\ wset' = [wset EXCEPT ![t] = {}]
  /\ UNCHANGED <<depth, ntok, iter, stream, stores, extVars>>
  /\ IF e # "none"
     THEN /\ last' = TRec("T", t, e, e, <<"AbortTransaction">>)
          /\ stale' = [stale EXCEPT ![t] = {}]
          /\ UNCHANGED <<committed, hist>>
     ELSE IF drv \/ tstate[t] = "failed"
     THEN /\ last' = TRec("T", t, e, "Driver", <<"CommitTransaction">>)
          /\ stale' = [stale EXCEPT ![t] = {}]
          /\ UNCHANGED <<committed, hist>>
     ELSE /\ last' = TRec("T", t, e, "none", <<"CommitTransaction">>)
          /\ committed' = Commit(t)
          /\ hist' = [u \in Txns |->
                        IF u # t /\ Running(u)
                        THEN [hist[u] EXCEPT !.fence = @ \cup hist[t].flk]
                        ELSE hist[u]]
          /\ stale' = [u \in Txns |->
                         IF u = t THEN {}
                         ELSE IF Running(u) THEN stale[u] \cup wset[t]
                         ELSE stale[u]]

\* ------------------------------------------------------------- actions
Skips == {0, 1}
Limits == {0, 1}
Lists == {"ok", "nil"}
Drvs == {0, 1, 2}

DoFind(c, mdl, id, lock, flags, drv) ==
  Apply("Find", c, In(lock, flags, 0, 0, FId(id), "keep", drv),
        Find(c, mdl, id, lock, flags, drv))

CallFind(c) ==
  /\ CanCall(c)
  /\ \E mdl \in Decoded, id \in Ids, lock \in BOOLEAN, flags \in FlagLists,
        drv \in BOOLEAN :
       DoFind(c, mdl, id, lock, flags, drv)

DoFindFirst(c, mdl, filter, sort, skip, lock, flags, drv) ==
  Apply("FindFirst", c, In(lock, flags, skip, 0, filter, "keep", drv),
        FindFirst(c, mdl, filter, sort, skip, lock, flags, drv))

CallFindFirst(c) ==
  /\ CanCall(c)
  /\ \E mdl \in Decoded, filter \in Filters, sort \in Sorts, skip \in Skips,
        lock \in BOOLEAN, flags \in FlagLists, drv \in BOOLEAN :
       DoFindFirst(c, mdl, filter, sort, skip, lock, flags, drv)

DoFindAll(c, list, filter, sort, skip, limit, lock, flags, drv) ==
  Apply("FindAll", c, In(lock, flags, skip, limit, filter, "keep", drv # 0),
        FindAll(c, list, filter, sort, skip, limit, lock, flags, drv))

CallFindAll(c) ==
  /\ CanCall(c)
  /\ \E list \in Lists, filter \in Filters, sort \in BulkSorts, skip \in Skips,
        limit \in Limits, lock \in BOOLEAN, flags \in FlagLists,
        drv \in Drvs :
       DoFindAll(c, list, filter, sort, skip, limit, lock, flags, drv)

DoFindEach(c, filter, sort, skip, limit, lock, flags, drv) ==
  Apply("FindEach", c, In(lock, flags, skip, limit, filter, "keep", drv # 0),
        FindEach(c, filter, sort, skip, limit, lock, flags, drv))

CallFindEach(c) ==
  /\ CanCall(c)
  /\ \E filter \in Filters, sort \in BulkSorts, skip \in Skips, limit \in Limits,
        lock \in BOOLEAN, flags \in FlagLists, drv \in Drvs :
       DoFindEach(c, filter, sort, skip, limit, lock, flags, drv)

DoProject(c, id, field, lock, drv) ==
  Apply("Project", c, In(lock, <<>>, 0, 0, FId(id), "keep", drv # 0),
        Project(c, id, field, lock, drv))

CallProject(c) ==
  /\ CanCall(c)
  /\ \E id \in Ids, field \in Fields, lock \in BOOLEAN, drv \in Drvs :
       DoProject(c, id, field, lock, drv)

DoProjectFirst(c, filter, field, sort, skip, lock, drv) ==
  Apply("ProjectFirst", c, In(lock, <<>>, skip, 0, filter, "keep", drv # 0),
        ProjectFirst(c, filter, field, sort, skip, lock, drv))

CallProjectFirst(c) ==
  /\ CanCall(c)
  /\ \E filter \in Filters, field \in Fields, sort \in Sorts, skip \in Skips,
        lock \in BOOLEAN, drv \in Drvs :
       DoProjectFirst(c, filter, field, sort, skip, lock, drv)

DoProjectAll(c, filter, field, sort, skip, limit, lock, flags, drv) ==
  Apply("ProjectAll", c, In(lock, flags, skip, limit, filter, "keep", drv # 0),
        ProjectAll(c, filter, field, sort, skip, limit, lock, flags, drv))

CallProjectAll(c) ==
  /\ CanCall(c)
  /\ \E filter \in Filters, field \in Fields, sort \in BulkSorts, skip \in Skips,
        limit \in Limits, lock \in BOOLEAN, flags \in FlagLists,
        drv \in Drvs :
       DoProjectAll(c, filter, field, sort, skip, limit, lock, flags, drv)

DoProjectEach(c, filter, field, sort, skip, limit, lock, flags, drv) ==
  Apply("ProjectEach", c,
        In(lock, flags, skip, limit, filter, "keep", drv # 0),
        ProjectEach(c, filter, field, sort, skip, limit, lock, flags, drv))

CallProjectEach(c) ==
  /\ CanCall(c)
  /\ \E filter \in Filters, field \in Fields, sort \in BulkSorts, skip \in Skips,
        limit \in Limits, lock \in BOOLEAN, flags \in FlagLists,
        drv \in Drvs :
       DoProjectEach(c, filter, field, sort, skip, limit, lock, flags, drv)

DoCount(c, filter, skip, limit, lock, flags, drv) ==
  Apply("Count", c, In(lock, flags, skip, limit, filter, "keep", drv # 0),
        Count(c, filter, skip, limit, lock, flags, drv))

CallCount(c) ==
  /\ CanCall(c)
  /\ \E filter \in Filters, skip \in Skips, limit \in Limits,
        lock \in BOOLEAN, flags \in FlagLists, drv \in Drvs :
       DoCount(c, filter, skip, limit, lock, flags, drv)

DoDistinct(c, field, filter, lock, flags, drv) ==
  Apply("Distinct", c, In(lock, flags, 0, 0, filter, "keep", drv # 0),
        Distinct(c, field, filter, lock, flags, drv))

CallDistinct(c) ==
  /\ CanCall(c)
  /\ \E field \in Fields, filter \in Filters, lock \in BOOLEAN,
        flags \in FlagLists, drv \in Drvs :
       DoDistinct(c, field, filter, lock, flags, drv)

InsFlags == {<<>>, <<NoValidation>>}

\* the record of an Insert or InsertAll keeps the models before and after
InBatch(models, flags, mode) ==
  [In(FALSE, flags, 0, 0, FAll, "keep", mode = 1) EXCEPT
     !.batch = models,
     !.stored = EnsureIds(models, NewIds(models))]

DoInsert(c, model, flags, mode) ==
  Apply("Insert", c, InBatch(<<model>>, flags, mode),
        Insert(c, model, flags, mode))

CallInsert(c) ==
  /\ CanCall(c)
  /\ \E model \in InsModels, flags \in InsFlags, mode \in Drvs :
       /\ CanEnsure(<<model>>)
       /\ DoInsert(c, model, flags, mode)

DoInsertAll(c, models, flags, mode) ==
  Apply("InsertAll", c, InBatch(models, flags, mode),
        InsertAll(c, models, flags, mode))

CallInsertAll(c, B) ==
  /\ CanCall(c)
  /\ \E models \in B, flags \in InsFlags, mode \in Drvs :
       /\ CanEnsure(models)
       /\ DoInsertAll(c, models, flags, mode)

DoInsertIfMissing(c, filter, model, lock, flags, nid, drv) ==
  Apply("InsertIfMissing", c,
        [In(lock, flags, 0, 0, filter, "keep", drv) EXCEPT
           !.batch = <<model>>,
           !.stored = <<[model EXCEPT
                           !.id = IF model.id = ZeroID THEN nid ELSE @]>>],
        InsertIfMissing(c, filter, model, lock, flags, nid, drv))

CallInsertIfMissing(c) ==
  /\ CanCall(c)
  /\ \E filter \in Filters, model \in WModels, lock \in BOOLEAN,
        flags \in FlagLists, nid \in Ids, drv \in BOOLEAN :
       /\ (model.id = ZeroID
             /\ InsertIfMissing(c, filter, model, lock, flags, nid, drv).found)
            => nid \in FreeIds
       /\ DoInsertIfMissing(c, filter, model, lock, flags, nid, drv)

\* the caller's model after Replace (first = FALSE) or ReplaceFirst: its lock
\* counter is raised once the checks before the increment have passed
Replaced(c, model, lock, flags, first) ==
  IF /\ lock
     /\ model.meta = "ok"
     /\ first \/ model.id # ZeroID
     /\ HasTransaction(c)
     /\ Has(Merge(flags), NoValidation) \/ Validate(model)
  THEN [model EXCEPT !.lk = @ + LockBump]
  ELSE model

DoReplace(c, model, lock, flags, drv) ==
  Apply("Replace", c,
        [In(lock, flags, 0, 0, FId(model.id), "keep", drv) EXCEPT
           !.batch = <<model>>,
           !.stored = <<Replaced(c, model, lock, flags, FALSE)>>],
        Replace(c, model, lock, flags, drv))

CallReplace(c) ==
  /\ CanCall(c)
  /\ \E model \in WModels, lock \in BOOLEAN, flags \in FlagLists,
        drv \in BOOLEAN :
       DoReplace(c, model, lock, flags, drv)

DoReplaceFirst(c, filter, model, lock, flags, drv) ==
  Apply("ReplaceFirst", c,
        [In(lock, flags, 0, 0, filter, "keep", drv) EXCEPT
           !.batch = <<model>>,
           !.stored = <<Replaced(c, model, lock, flags, TRUE)>>],
        ReplaceFirst(c, filter, model, lock, flags, drv))

CallReplaceFirst(c) ==
  /\ CanCall(c)
  /\ \E filter \in Filters, model \in WModels, lock \in BOOLEAN,
        flags \in FlagLists, drv \in BOOLEAN :
       DoReplaceFirst(c, filter, model, lock, flags, drv)

DoUpdate(c, mdl, id, update, lock, drv) ==
  Apply("Update", c, In(lock, <<>>, 0, 0, FId(id), update, drv),
        Update(c, mdl, id, update, lock, drv))

CallUpdate(c) ==
  /\ CanCall(c)
  /\ \E mdl \in Decoded, id \in Ids, update \in Updates, lock \in BOOLEAN,
        drv \in BOOLEAN :
       DoUpdate(c, mdl, id, update, lock, drv)

DoUpdateFirst(c, mdl, filter, update, sort, lock, drv) ==
  Apply("UpdateFirst", c, In(lock, <<>>, 0, 0, filter, update, drv),
        UpdateFirst(c, mdl, filter, update, sort, lock, drv))

CallUpdateFirst(c) ==
  /\ CanCall(c)
  /\ \E mdl \in Decoded, filter \in Filters, update \in Updates,
        sort \in Sorts, lock \in BOOLEAN, drv \in BOOLEAN :
       DoUpdateFirst(c, mdl, filter, update, sort, lock, drv)

DoUpdateAll(c, filter, update, lock, drv) ==
  Apply("UpdateAll", c, In(lock, <<>>, 0, 0, filter, update, drv),
        UpdateAll(c, filter, update, lock, drv))

CallUpdateAll(c) ==
  /\ CanCall(c)
  /\ \E filter \in Filters, update \in Updates, lock \in BOOLEAN,
        drv \in BOOLEAN :
       DoUpdateAll(c, filter, update, lock, drv)

DoUpsert(c, mdl, filter, update, sort, lock, nid, drv) ==
  Apply("Upsert", c, In(lock, <<>>, 0, 0, filter, update, drv),
        Upsert(c, mdl, filter, update, sort, lock, nid, drv))

CallUpsert(c) ==
  /\ CanCall(c)
  /\ \E mdl \in Decoded, filter \in Filters, update \in Updates,
        sort \in Sorts, lock \in BOOLEAN, nid \in Ids, drv \in BOOLEAN :
       /\ Upsert(c, mdl, filter, update, sort, lock, nid, drv).found
            => nid \in FreeIds
       /\ DoUpsert(c, mdl, filter, update, sort, lock, nid, drv)

DoDelete(c, mdl, id, drv) ==
  Apply("Delete", c, In(FALSE, <<>>, 0, 0, FId(id), "keep", drv),
        Delete(c, mdl, id, drv))

CallDelete(c) ==
  /\ CanCall(c)
  /\ \E mdl \in Models, id \in Ids, drv \in BOOLEAN :
       DoDelete(c, mdl, id, drv)

DoDeleteFirst(c, mdl, filter, sort, drv) ==
  Apply("DeleteFirst", c, In(FALSE, <<>>, 0, 0, filter, "keep", drv),
        DeleteFirst(c, mdl, filter, sort, drv))

CallDeleteFirst(c) ==
  /\ CanCall(c)
  /\ \E mdl \in Decoded, filter \in Filters, sort \in Sorts, drv \in BOOLEAN :
       DoDeleteFirst(c, mdl, filter, sort, drv)

\* ------------------------------------------------------ ManagedIterator
\* Next: the cursor loads its next document when it has one
IteratorNext(it) ==
  IF it.docs = <<>> THEN [it EXCEPT !.cur = NoDoc, !.loaded = FALSE]
  ELSE [it EXCEPT !.cur = Head(it.docs), !.docs = Tail(it.docs),
                  !.loaded = TRUE]

\* Decode that validates whatever the validate field says (what C19 rules
\* out)
Decode_AlwaysValidates(it, mdl, drv) ==
  IF mdl # "ok" THEN [err |-> "MetaMismatch", model |-> NoDoc]
  ELSE IF drv THEN [err |-> "Driver", model |-> NoDoc]
  ELSE IF ~Validate(it.cur) THEN [err |-> "Validation", model |-> it.cur]
  ELSE [err |-> "none", model |-> it.cur]

\* Decode: the loaded document goes into the model (model: what the
\* caller's model holds afterwards, NoDoc when nothing was decoded); drv:
\* the iterator's Decode fails
Decode(it, mdl, drv) ==
  IF mdl # "ok" THEN [err |-> "MetaMismatch", model |-> NoDoc]
  ELSE IF drv THEN [err |-> "Driver", model |-> NoDoc]
  ELSE IF it.validate /\ ~Validate(it.cur)
  THEN [err |-> "Validation", model |-> it.cur]
  ELSE [err |-> "none", model |-> it.cur]

\* the record of a step of the iterator
IRec(op, mdl, drv, err, found, model) ==
  Rec(op, iter.c,
      [In(FALSE, IF iter.validate THEN <<>> ELSE <<NoValidation>>, 0, 0, FAll,
          "keep", drv) EXCEPT !.mdl = mdl],
      err, found, Len(iter.docs), model, <<>>)

\* the iterator can be used: it is open and the callback it was made in runs
CanIterate == iter.open /\ (iter.c # NoTx => Running(iter.c))

CallNext ==
  /\ CanIterate
  /\ iter' = IteratorNext(iter)
  /\ last' = IRec("Next", "ok", FALSE, "none", iter.docs # <<>>, NoDoc)
  /\ UNCHANGED <<committed, tstate, local, wset, stale, depth, ntok, nops,
                 hist, stream, stores, extVars>>

DoDecode(mdl, drv) ==
  /\ last' = IRec("Decode", mdl, drv, Decode(iter, mdl, drv).err,
                  Decode(iter, mdl, drv).err = "none",
                  Decode(iter, mdl, drv).model)
  /\ UNCHANGED <<committed, tstate, local, wset, stale, depth, ntok, nops,
                 hist, iter, stream, stores, extVars>>

CallDecode ==
  /\ CanIterate
  /\ iter.loaded
  /\ \E mdl \in Decoded, drv \in BOOLEAN : DoDecode(mdl, drv)

CallClose ==
  /\ iter.open
  /\ iter' = NoIter
  /\ last' = IRec("Close", "ok", FALSE, "none", FALSE, NoDoc)
  /\ UNCHANGED <<committed, tstate, local, wset, stale, depth, ntok, nops,
                 hist, stream, stores, extVars>>

DocInit == {NoDoc, Doc(0, "A", 0), Doc(1, "B", 0)}

Init ==
  /\ committed \in [Ids -> DocInit]
  /\ tstate = [t \in Txns |-> "idle"]
  /\ local = [t \in Txns |-> NoView]
  /\ wset = [t \in Txns |-> {}]
  /\ stale = [t \in Txns |-> {}]
  /\ depth = [t \in Txns |-> 0]
  /\ ntok = 0
  /\ nops = 1
  /\ last = TRec("init", NoTx, "none", "none", <<>>)
  /\ hist = [t \in Txns |-> NoHist]
  /\ iter = NoIter
  /\ stream = NoStream
  /\ stores = NoStores
  /\ ExtIdle

\* Spec: one client that makes one Manager call, outside a transaction or
\* inside the callback of one Store.T (which may join further T calls), on
\* every initial content of the collection; a joined callback returns after
\* the call, and the run ends when the T that started the transaction returns
Callers == IF Running(1) THEN {1} ELSE {NoTx}

CallT == nops > 0 /\ \E c \in Callers, drv \in BOOLEAN : TCall(c, 1, drv)

JoinReturn == nops = 0 /\ \E e \in CbErrs : TJoinReturn(1, e)

Return == \E e \in CbErrs, drv \in BOOLEAN : TReturn(1, e, drv) /\ nops' = 0

Next ==
  \/ CallT
  \/ JoinReturn
  \/ Return
  \/ \E c \in Callers : CallFind(c)
  \/ \E c \in Callers : CallFindFirst(c)
  \/ \E c \in Callers : CallFindAll(c)
  \/ \E c \in Callers : CallFindEach(c)
  \/ \E c \in Callers : CallProject(c)
  \/ \E c \in Callers : CallProjectFirst(c)
  \/ \E c \in Callers : CallProjectAll(c)
  \/ \E c \in Callers : CallProjectEach(c)
  \/ \E c \in Callers : CallCount(c)
  \/ \E c \in Callers : CallDistinct(c)
  \/ \E c \in Callers : CallInsert(c)
  \/ \E c \in Callers : CallInsertAll(c, ShortBatches)
  \/ \E c \in Callers : CallInsertIfMissing(c)
  \/ \E c \in Callers : CallReplace(c)
  \/ \E c \in Callers : CallReplaceFirst(c)
  \/ \E c \in Callers : CallUpdate(c)
  \/ \E c \in Callers : CallUpdateFirst(c)
  \/ \E c \in Callers : CallUpdateAll(c)
  \/ \E c \in Callers : CallUpsert(c)
  \/ \E c \in Callers : CallDelete(c)
  \/ \E c \in Callers : CallDeleteFirst(c)
  \/ CallNext
  \/ CallDecode
  \/ CallClose

Spec == Init /\ [][Next]_vars

\* the documents the transactions of SpecTxn work on
IdsT == 1..MaxDocsT

\* the initial contents of the collection where documents 1..k exist
InitDocs ==
  {[d \in Ids |-> IF d <= k THEN Doc(0, "A", 0) ELSE NoDoc] : k \in 0..MaxDocsT}

\* SpecTxn: concurrent Store.T calls whose callbacks find and update
\* documents, MaxOpsT calls in all (sessions are started in the order of
\* their numbers)
InitT ==
  /\ committed \in InitDocs
  /\ tstate = [t \in Txns |-> "idle"]
  /\ local = [t \in Txns |-> NoView]
  /\ wset = [t \in Txns |-> {}]
  /\ stale = [t \in Txns |-> {}]
  /\ depth = [t \in Txns |-> 0]
  /\ ntok = 0
  /\ nops = MaxOpsT
  /\ last = TRec("init", NoTx, "none", "none", <<>>)
  /\ hist = [t \in Txns |-> NoHist]
  /\ iter = NoIter
  /\ stream = NoStream
  /\ stores = NoStores
  /\ ExtIdle

TxCall ==
  \E t \in Txns :
    /\ \A u \in Txns : u < t => tstate[u] # "idle"
    /\ TCall(NoTx, t, FALSE)

TxReturn ==
  \E t \in Txns, e \in CbErrs : TReturn(t, e, FALSE) /\ UNCHANGED nops

TxFind ==
  \E c \in Txns, id \in IdsT, lock \in BOOLEAN :
    DoFind(c, "ok", id, lock, <<>>, FALSE)

TxUpdate ==
  \E c \in Txns, id \in IdsT : DoUpdate(c, "ok", id, "B", FALSE, FALSE)

NextT ==
  \/ TxCall
  \/ TxReturn
  \/ TxFind
  \/ TxUpdate

SpecTxn == InitT /\ [][NextT]_vars

\* SpecUps: MaxOpsT Upsert calls in a row by a caller outside a transaction
UpsFilters == {FAll, FTitle("A"), FTitle("B")}

InitU ==
  /\ committed \in [Ids -> {NoDoc, Doc(0, "A", 0)}]
  /\ tstate = [t \in Txns |-> "idle"]
  /\ local = [t \in Txns |-> NoView]
  /\ wset = [t \in Txns |-> {}]
  /\ stale = [t \in Txns |-> {}]
  /\ depth = [t \in Txns |-> 0]
  /\ ntok = 0
  /\ nops = MaxOpsT
  /\ last = TRec("init", NoTx, "none", "none", <<>>)
  /\ hist = [t \in Txns |-> NoHist]
  /\ iter = NoIter
  /\ stream = NoStream
  /\ stores = NoStores
  /\ ExtIdle

UpsCall ==
  /\ CanCall(NoTx)
  /\ \E filter \in UpsFilters, update \in Titles, sort \in {"none", "desc"},
        nid \in Ids :
       /\ Upsert(NoTx, "ok", filter, update, sort, FALSE, nid, FALSE).found
            => nid \in FreeIds
       /\ DoUpsert(NoTx, "ok", filter, update, sort, FALSE, nid, FALSE)

NextU == UpsCall

SpecUps == InitU /\ [][NextU]_vars

\* SpecIim: concurrent Store.T calls whose callbacks call InsertIfMissing
\* with a new model that fits the filter, MaxOpsT calls in all; no unique
\* index covers the filter
IimFilters == {FAll, FTitle("A")}

IimModel == [meta |-> "ok", id |-> ZeroID, title |-> "A", lk |-> 0]

InitM ==
  /\ committed \in {NoView, [NoView EXCEPT ![1] = Doc(0, "B", 0)]}
  /\ tstate = [t \in Txns |-> "idle"]
  /\ local = [t \in Txns |-> NoView]
  /\ wset = [t \in Txns |-> {}]
  /\ stale = [t \in Txns |-> {}]
  /\ depth = [t \in Txns |-> 0]
  /\ ntok = 0
  /\ nops = MaxOpsT
  /\ last = TRec("init", NoTx, "none", "none", <<>>)
  /\ hist = [t \in Txns |-> NoHist]
  /\ iter = NoIter
  /\ stream = NoStream
  /\ stores = NoStores
  /\ ExtIdle

IimCall ==
  \E c \in Txns, filter \in IimFilters, lock \in BOOLEAN :
    /\ CanCall(c)
    /\ FreeIds # {}
    /\ DoInsertIfMissing(c, filter, IimModel, lock, <<>>, SetMin(FreeIds),
                         FALSE)

NextM ==
  \/ TxCall
  \/ TxReturn
  \/ IimCall

SpecIim == InitM /\ [][NextM]_vars

\* SpecIns: one Insert or InsertAll of a batch of up to MaxBatch models, by
\* a caller outside a transaction or inside the callback of one Store.T
InitI ==
  /\ committed \in [Ids -> {NoDoc, Doc(0, "A", 0)}]
  /\ tstate = [t \in Txns |-> "idle"]
  /\ local = [t \in Txns |-> NoView]
  /\ wset = [t \in Txns |-> {}]
  /\ stale = [t \in Txns |-> {}]
  /\ depth = [t \in Txns |-> 0]
  /\ ntok = 0
  /\ nops = 1
  /\ last = TRec("init", NoTx, "none", "none", <<>>)
  /\ hist = [t \in Txns |-> NoHist]
  /\ iter = NoIter
  /\ stream = NoStream
  /\ stores = NoStores
  /\ ExtIdle

InsT == TCall(NoTx, 1, FALSE)

InsReturn == \E e \in CbErrs : TReturn(1, e, FALSE) /\ nops' = 0

InsOne == \E c \in Callers : CallInsert(c)

InsAll == \E c \in Callers : CallInsertAll(c, Batches)

NextI ==
  \/ InsT
  \/ InsReturn
  \/ InsOne
  \/ InsAll

SpecIns == InitI /\ [][NextI]_vars

\* ---------------------------------------------------------- Stream steps
\* what a receiver returns: nil, an error, ErrStop
Rets == {"nil", "err", "stop"}

\* the changes of the feed: operation type, the fields the update
\* description names as updated and as removed, whether the change has a
\* full document
Change(type, updated, removed, full) ==
  [type |-> type, updated |-> updated, removed |-> removed, full |-> full]

\* one change of each way tail takes: delivered, passed over, invalidating
Changes ==
  {Change("insert", {}, {}, TRUE), Change("update", {"_lk"}, {}, TRUE),
   Change("invalidate", {}, {}, FALSE)}

Feeds == UNION {[1..n -> Changes] : n \in 0..MaxChanges}

\* the feeds of a stream whose calls of the receiver are recorded
ShortFeeds == UNION {[1..n -> Changes] : n \in 0..MaxFeed}

\* every kind of change a feed reports: the operation types of the
\* database, "renamed" that tail names, a type tail does not know, and
\* updates of the lock field and of another field
AllChanges ==
  {Change("insert", {}, {}, full) : full \in BOOLEAN} \cup
  {Change("update", updated, removed, full) :
     updated \in SUBSET {"_lk", "title"}, removed \in SUBSET {"done"},
     full \in BOOLEAN} \cup
  {Change(type, {}, {}, TRUE) : type \in {"replace"}} \cup
  {Change(type, {}, {}, FALSE) :
     type \in {"delete", "drop", "rename", "renamed", "dropDatabase",
               "invalidate", "other"}}

\* the switch of tail on the operation type; without a matching case the
\* event stays the empty string
EventOf(type) ==
  CASE type = "insert" -> "created"
    [] type \in {"replace", "update"} -> "updated"
    [] type = "delete" -> "deleted"
    [] OTHER -> ""

Invalidating(type) ==
  type \in {"drop", "renamed", "dropDatabase", "invalidate"}

\* an update that names the lock field among others counts as an update
\* of the lock alone
Locked_AnyLock(ch) == EventOf(ch.type) = "updated" /\ "_lk" \in ch.updated

\* the change is an update of the lock field alone
Locked(ch) ==
  /\ EventOf(ch.type) = "updated"
  /\ ch.removed = {}
  /\ Cardinality(ch.updated) = 1
  /\ "_lk" \in ch.updated

\* tail passes over a change without a call of the receiver
Skipped(ch) ==
  /\ EventOf(ch.type) \in {"created", "updated"}
  /\ Locked(ch) \/ ~ch.full

\* there is room to record a call of the receiver
Room(st) == ~st.logged \/ Len(st.log) < MaxLog

\* receiver(ev, id, doc, err, tok) returns ret: doc says that a document
\* is passed, err is the error passed ("none": nil)
Receive(st, ev, doc, err, tok, ret) ==
  LET c == [ev |-> ev, ret |-> ret, tok |-> tok, err |-> err, doc |-> doc]
  IN  [st EXCEPT !.call = c,
                 !.log = IF st.logged THEN Append(@, c) ELSE @]

\* the receiver is called with event ev and token tok, no document and no
\* error, and returns ret
Deliver(st, ev, ret, tok) == Receive(st, ev, FALSE, "none", tok, ret)

\* where an error of the receiver takes tail
AfterError(ret) == IF ret = "stop" THEN "stopped" ELSE "errored"

\* tail returns ErrStop of the receiver as an error like any other
TailReturns_StopIsError(st, ret) ==
  [st EXCEPT !.pc = "errored", !.err = "receiver"]

\* tail returns the error ret of the receiver
TailReturns(st, ret) ==
  [st EXCEPT !.pc = AfterError(ret),
             !.err = IF ret = "stop" THEN "stop" ELSE "receiver"]

mgrVars ==
  <<committed, tstate, local, wset, stale, depth, ntok, nops, last, hist,
    iter, stores, extVars>>

\* Watch that takes no token and reports the feed from its beginning
WatchFrom_Beginning(st, now) == 0

\* where Watch starts to report the feed: after the stored token, and
\* without a token at the present, the place now of the feed
WatchFrom(st, now) == IF st.token = 0 THEN now ELSE st.token

\* open, top of the loop: a stream that is not alive signals Stopped and
\* returns; otherwise tail watches the collection (ok: Watch succeeds),
\* after the stored token, or without a token from the present: from a
\* place now of the feed not before the changes already read
OpenWatch ==
  /\ stream.pc = "open"
  /\ Room(stream)
  /\ \E ok \in BOOLEAN, now \in stream.pos..Len(stream.feed) :
       stream' = IF ~stream.alive
                 THEN [Deliver(stream, "stopped", "nil", stream.token) EXCEPT
                         !.pc = "done"]
                 ELSE IF ok
                 THEN [stream EXCEPT
                         !.pc = "signal",
                         !.pos = WatchFrom(stream, now),
                         !.err = "none",
                         !.down = FALSE]
                 ELSE [stream EXCEPT !.pc = "errored", !.err = "feed",
                                     !.down = TRUE]
  /\ UNCHANGED mgrVars

\* tail when the flag opened is written before the receiver is called (what
\* C20 as stated takes the code to do)
Signal_SetFirst(st, ret) ==
  LET d == Deliver(st, IF st.opened THEN "resumed" ELSE "opened", ret,
                   st.token)
  IN  IF ret = "nil" THEN [d EXCEPT !.opened = TRUE, !.pc = "next"]
      ELSE [TailReturns(d, ret) EXCEPT !.opened = TRUE]

\* tail after Watch: Opened or Resumed is signalled, and the flag opened is
\* set once the receiver has returned nil
Signal(st, ret) ==
  LET d == Deliver(st, IF st.opened THEN "resumed" ELSE "opened", ret,
                   st.token)
  IN  IF ret = "nil" THEN [d EXCEPT !.opened = TRUE, !.pc = "next"]
      ELSE TailReturns(d, ret)

TailSignal ==
  /\ stream.pc = "signal"
  /\ Room(stream)
  /\ \E ret \in Rets : stream' = Signal(stream, ret)
  /\ UNCHANGED mgrVars

\* tail, one turn of the loop over the changes: the change after pos is
\* read; its token is its place in the feed
Handle(st, ch, ret) ==
  LET tok == st.pos + 1
      rd == [st EXCEPT !.pos = tok]
      doc == EventOf(ch.type) \in {"created", "updated"}
      d == Receive(rd, EventOf(ch.type), doc, "none", tok, ret)
  IN  IF Invalidating(ch.type)
      THEN [rd EXCEPT !.pc = "errored", !.err = "invalidated"]
      ELSE IF Skipped(ch) THEN [rd EXCEPT !.token = tok]
      ELSE IF ret = "nil" THEN [d EXCEPT !.token = tok]
      ELSE TailReturns(d, ret)

TailNext ==
  /\ stream.pc = "next"
  /\ stream.alive
  /\ stream.pos < Len(stream.feed)
  /\ Room(stream)
  /\ \E ret \in Rets :
       stream' = Handle(stream, stream.feed[stream.pos + 1], ret)
  /\ UNCHANGED mgrVars

\* the change read cannot be decoded: tail returns the error
TailDecode ==
  /\ stream.pc = "next"
  /\ stream.alive
  /\ stream.pos < Len(stream.feed)
  /\ stream' = [stream EXCEPT !.pos = @ + 1, !.pc = "errored",
                              !.err = "decode", !.down = TRUE]
  /\ UNCHANGED mgrVars

\* Next returns false, because the feed has failed or the stream is
\* killed: tail returns what Close of the change stream returns, an error
\* or nil, and the error of Next is not looked at
TailEnd ==
  /\ stream.pc = "next"
  /\ \E failed \in BOOLEAN :
       stream' = [stream EXCEPT
                    !.pc = IF failed THEN "errored" ELSE "open",
                    !.err = IF failed THEN "close" ELSE "none",
                    !.down = TRUE]
  /\ UNCHANGED mgrVars

\* open when an invalidated stream is at its end (what C22 as stated takes
\* the code to do)
Errored_Fatal(st, ret) ==
  [Receive(st, "errored", FALSE, st.err, st.token, ret) EXCEPT
     !.pc = IF ret = "stop" \/ st.err = "invalidated" THEN "stopped"
            ELSE "open"]

\* open after an error of tail: Errored is signalled with the error, and
\* open goes on to signal Stopped when the receiver answers with ErrStop,
\* and round the loop otherwise
Errored(st, ret) ==
  [Receive(st, "errored", FALSE, st.err, st.token, ret) EXCEPT
     !.pc = IF ret = "stop" THEN "stopped" ELSE "open"]

OpenErrored ==
  /\ stream.pc = "errored"
  /\ Room(stream)
  /\ \E ret \in Rets : stream' = Errored(stream, ret)
  /\ UNCHANGED mgrVars

\* open after tail or the receiver of Errored has returned ErrStop
OpenStopped ==
  /\ stream.pc = "stopped"
  /\ stream' = [Deliver(stream, "stopped", "nil", stream.token) EXCEPT
                  !.pc = "done"]
  /\ UNCHANGED mgrVars

\* a Close that tells the receiver itself that the stream has stopped
StreamClose_Delivers ==
  /\ stream.pc # "none"
  /\ stream.closer = "idle"
  /\ stream.closed < MaxClose
  /\ stream' = [Deliver(stream, "stopped", "nil", stream.token) EXCEPT
                  !.alive = FALSE, !.closer = "wait"]
  /\ UNCHANGED mgrVars

\* Close kills the tomb and waits for it
StreamClose ==
  /\ stream.pc # "none"
  /\ stream.closer = "idle"
  /\ stream.closed < MaxClose
  /\ stream' = [stream EXCEPT !.alive = FALSE, !.closer = "wait"]
  /\ UNCHANGED mgrVars

\* a wait that ends as soon as the tomb is killed
WaitOver_Killed(st) == ~st.alive

\* the wait for the tomb is over when open has returned
WaitOver(st) == st.pc = "done"

\* Close returns
CloseReturn ==
  /\ stream.closer = "wait"
  /\ WaitOver(stream)
  /\ stream' = [stream EXCEPT !.closer = "idle", !.closed = @ + 1]
  /\ UNCHANGED mgrVars

\* OpenStream(store, model, token, receiver) on the feed
OpenStream(feed, token, logged) ==
  [NoStream EXCEPT !.pc = "open", !.alive = TRUE, !.feed = feed,
                   !.token = token, !.start = token, !.logged = logged]

\* the manager is idle while a stream is looked at
InitIdle ==
  /\ committed = NoView
  /\ tstate = [t \in Txns |-> "idle"]
  /\ local = [t \in Txns |-> NoView]
  /\ wset = [t \in Txns |-> {}]
  /\ stale = [t \in Txns |-> {}]
  /\ depth = [t \in Txns |-> 0]
  /\ ntok = 0
  /\ nops = 0
  /\ last = TRec("init", NoTx, "none", "none", <<>>)
  /\ hist = [t \in Txns |-> NoHist]
  /\ iter = NoIter
  /\ stores = NoStores

\* SpecStream: one stream without a token from OpenStream to its end, on
\* every feed of up to MaxFeed changes, with a receiver that returns what
\* it likes
InitS ==
  /\ InitIdle
  /\ ExtIdle
  /\ \E feed \in ShortFeeds : stream = OpenStream(feed, 0, TRUE)

NextS ==
  \/ OpenWatch
  \/ TailSignal
  \/ TailNext
  \/ TailDecode
  \/ TailEnd
  \/ OpenErrored
  \/ OpenStopped
  \/ StreamClose
  \/ CloseReturn

SpecStream == InitS /\ [][NextS]_vars

\* SpecChange: the same stream on a feed of one change of every kind
InitC ==
  /\ InitIdle
  /\ ExtIdle
  /\ \E ch \in AllChanges : stream = OpenStream(<<ch>>, 0, TRUE)

SpecChange == InitC /\ [][NextS]_vars

\* SpecResume: a stream opened with or without a token, its calls of the
\* receiver not recorded beyond the latest, so that it runs without end.
\* The goroutine of the stream takes its steps: what is weakly fair is every
\* step of open and tail, and the end of Next once the stream is killed; a
\* failing feed and Close are up to the environment.
InitR ==
  /\ InitIdle
  /\ ExtIdle
  /\ \E feed \in Feeds : \E token \in 0..Len(feed) :
       stream = OpenStream(feed, token, FALSE)

Task ==
  \/ OpenWatch
  \/ TailSignal
  \/ TailNext
  \/ OpenErrored
  \/ OpenStopped
  \/ CloseReturn
  \/ (TailEnd /\ ~stream.alive)

SpecResume == InitR /\ [][NextS]_vars /\ WF_vars(Task)

\* ------------------------------------------------------------- Store steps
\* everything but the Stores
coreVars ==
  <<committed, tstate, local, wset, stale, depth, ntok, nops, last, hist,
    iter, stream>>

restVars == <<coreVars, extVars>>

\* GetMeta(model): the one Meta of the model's type, the key of both maps
GetMeta(type) == type

\* a goroutine calls Store.M or Store.C with a model of a type
StoreCall(p) ==
  /\ stores.procs[p].pc = "idle"
  /\ stores.ncalls < MaxCalls
  /\ \E op \in {"M", "C"}, s \in StoreIds, t \in ModelTypes :
       stores' = [stores EXCEPT
                    !.ncalls = @ + 1,
                    !.procs[p] = [pc |-> IF op = "M" THEN "mload" ELSE "cload",
                                  op |-> op, store |-> s,
                                  type |-> GetMeta(t), coll |-> NoObj]]
  /\ UNCHANGED restVars

\* the call of p returns obj, found in the map (hit) or made by the call
Returns(st, p, op, obj, hit) ==
  [st EXCEPT
     !.procs[p] = Idle,
     !.rets = @ \cup {[op |-> op, store |-> st.procs[p].store,
                       type |-> st.procs[p].type, obj |-> obj,
                       hit |-> hit]}]

\* Store.M, check cache: the Manager loaded is returned; without one the
\* call goes on to make one, and asks Store.C for the Collection first
MLoad(p) ==
  LET c == stores.procs[p]
      val == stores.managers[c.store][c.type]
  IN  /\ c.pc = "mload"
      /\ stores' = IF val # NoObj THEN Returns(stores, p, "M", val, TRUE)
                   ELSE [stores EXCEPT !.procs[p].pc = "cload"]
      /\ UNCHANGED restVars

\* Store.C, check cache: the Collection loaded is returned, to the caller
\* or to Store.M; without one the call goes on to make one
CLoad(p) ==
  LET c == stores.procs[p]
      val == stores.colls[c.store][c.type]
  IN  /\ c.pc = "cload"
      /\ stores' = IF val = NoObj THEN [stores EXCEPT !.procs[p].pc = "cstore"]
                   ELSE IF c.op = "C" THEN Returns(stores, p, "C", val, TRUE)
                   ELSE [stores EXCEPT !.procs[p].pc = "mstore",
                                       !.procs[p].coll = val]
      /\ UNCHANGED restVars

\* a map that keeps the value it has and gives it back (LoadOrStore)
Stored_LoadOrStore(cur, new) == IF cur # NoObj THEN cur ELSE new

\* Store of a sync.Map: the value kept under the key, whatever was there
Stored(cur, new) == new

\* Store.C, create and cache the Collection of the Store's database
CStore(p) ==
  LET c == stores.procs[p]
      new == Len(stores.objs) + 1
      val == Stored(stores.colls[c.store][c.type], new)
      made == [stores EXCEPT
                 !.objs = Append(@, [kind |-> "C", store |-> c.store,
                                     type |-> c.type, coll |-> NoObj]),
                 !.colls[c.store][c.type] = val]
  IN  /\ c.pc = "cstore"
      /\ stores' = IF c.op = "C" THEN Returns(made, p, "C", val, FALSE)
                   ELSE [made EXCEPT !.procs[p].pc = "mstore",
                                     !.procs[p].coll = val]
      /\ UNCHANGED restVars

\* Store.M, create and cache the Manager with its Meta and Collection
MStore(p) ==
  LET c == stores.procs[p]
      new == Len(stores.objs) + 1
      val == Stored(stores.managers[c.store][c.type], new)
      made == [stores EXCEPT
                 !.objs = Append(@, [kind |-> "M", store |-> c.store,
                                     type |-> c.type, coll |-> c.coll]),
                 !.managers[c.store][c.type] = val]
  IN  /\ c.pc = "mstore"
      /\ stores' = Returns(made, p, "M", val, FALSE)
      /\ UNCHANGED restVars

\* SpecStore: two Stores, two model types, and goroutines that call M and C
\* of either Store, MaxCalls calls in all, every access of a map a step
InitStore ==
  /\ InitIdle
  /\ ExtIdle
  /\ stream = NoStream

NextStore ==
  \E p \in Procs :
    \/ StoreCall(p)
    \/ MLoad(p)
    \/ CLoad(p)
    \/ CStore(p)
    \/ MStore(p)

SpecStore == InitStore /\ [][NextStore]_vars

\* ------------------------------------------------------------ properties
\* the view caller c has after a step
ViewAfter(c) == IF c = NoTx THEN committed' ELSE local'[c]

\* the operations that take a lock argument
LockOps ==
  {"Find", "FindFirst", "FindAll", "FindEach", "Project", "ProjectFirst",
   "ProjectAll", "ProjectEach", "Count", "Distinct", "InsertIfMissing",
   "Replace", "ReplaceFirst", "Update", "UpdateFirst", "UpdateAll", "Upsert"}

\* C1 (as stated): a step of an operation that takes a lock argument, called
\* with lock = true by a caller outside a transaction, returns
\* TransactionRequired and changes no document, whatever the other arguments.
C1_AlwaysTransactionRequired ==
  [][(nops' # nops /\ last'.op \in LockOps /\ last'.lock /\ last'.c = NoTx)
       => /\ last'.err = "TransactionRequired"
          /\ committed' = committed
          /\ local' = local]_vars

\* C1 (amended): such a call always returns an error, finds nothing, calls
\* the database not at all and changes no document; the error is
\* TransactionRequired unless an argument check that the operation makes
\* before its transaction check has failed: the model type of Replace and
\* ReplaceFirst, the zero id of Replace, the list of FindAll.
C1_LockNeedsTransaction ==
  [][(nops' # nops /\ last'.op \in LockOps /\ last'.lock /\ last'.c = NoTx)
       => /\ last'.err # "none"
          /\ ~last'.found
          /\ last'.calls = <<>>
          /\ committed' = committed
          /\ local' = local
          /\ last'.err # "TransactionRequired"
               => \/ last'.op \in {"Replace", "ReplaceFirst"}
                     /\ last'.err = "MetaMismatch"
                  \/ last'.op = "Replace" /\ last'.err = "ZeroID"
                  \/ last'.op = "FindAll" /\ last'.err = "List"]_vars

\* C1 witness: a Replace with lock outside a transaction has returned
\* TransactionRequired
C1_Witness ==
  /\ last.op = "Replace"
  /\ last.lock
  /\ last.c = NoTx
  /\ last.err = "TransactionRequired"

\* C3: a Find with lock inside a transaction on an existing document raises
\* the document's lock counter by exactly 1 in the transaction's view, changes
\* no other field and no other document, and hands back the document as it
\* is after the increment; a Find without lock changes no document at all.
C3_FindLock ==
  [][(nops' # nops /\ last'.op = "Find") =>
       IF last'.lock /\ last'.c # NoTx
       THEN IF View(last'.c)[last'.q.id].ex
               /\ last'.err \in {"none", "Validation"}
            THEN /\ ViewAfter(last'.c) =
                      [View(last'.c) EXCEPT ![last'.q.id].lk = @ + 1]
                 /\ last'.model = ViewAfter(last'.c)[last'.q.id]
                 /\ last'.model.lk = View(last'.c)[last'.q.id].lk + 1
                 /\ last'.calls = <<"FindOneAndUpdate">>
                 /\ committed' = committed
            ELSE /\ ~last'.found
                 /\ local' = local
                 /\ committed' = committed
       ELSE /\ committed' = committed
            /\ local' = local]_vars

\* C3 witness: a Find with lock has found a document whose counter was 0 and
\* returned it with counter 1
C3_Witness ==
  /\ last.op = "Find"
  /\ last.lock
  /\ last.found
  /\ last.model.lk = 1
  /\ committed[last.q.id].lk = 0
  /\ local[last.c][last.q.id] = last.model

C5_CommitIffNil ==
  [][\A t \in Txns :
       (Running(t) /\ tstate'[t] = "done") =>
         /\ last'.op = "T"
         /\ last'.c = t
         /\ (last'.cb = "none") <=> (last'.calls = <<"CommitTransaction">>)
         /\ last'.cb # "none"
              => /\ last'.calls = <<"AbortTransaction">>
                 /\ last'.err = last'.cb
                 /\ committed' = committed
         /\ last'.err # "none" => committed' = committed
         /\ last'.err = "none"
              => /\ last'.cb = "none"
                 /\ \A d \in Ids :
                      committed'[d] = IF d \in wset[t] THEN local[t][d]
                                      ELSE committed[d]]_vars

\* C5 witness: a T whose callback wrote a document and returned an error has
\* returned that error
C5_Witness ==
  /\ last.op = "T"
  /\ last.cb = "cb"
  /\ last.err = "cb"
  /\ last.n > 0
  /\ tstate[last.c] = "done"

\* C6: a Store.T entered with a context that carries a transaction, and the
\* return of its callback, make no database call and change neither the
\* state of the transaction nor any document, committed or pending; the
\* joined T returns what its callback returned; the transaction is committed
\* or aborted by the T that started it, by what the callback of that T
\* returns, whatever a joined callback has returned before.
C6_Join ==
  [][/\ (\E t \in Txns : depth'[t] # depth[t])
          => /\ last'.op \in {"T.join", "T.joined"}
             /\ last'.calls = <<>>
             /\ last'.err = last'.cb
             /\ Running(last'.c)
             /\ tstate' = tstate
             /\ committed' = committed
             /\ local' = local
             /\ wset' = wset
     /\ \A t \in Txns :
          (Running(t) /\ tstate'[t] = "done" /\ hist[t].jerr)
            => /\ (last'.cb = "none")
                    <=> (last'.calls = <<"CommitTransaction">>)
               /\ (last'.cb # "none")
                    <=> (last'.calls = <<"AbortTransaction">>)]_vars

\* C6 witness: a transaction with a write has been committed by the T that
\* started it after a joined callback had returned an error
C6_Witness ==
  /\ last.op = "T"
  /\ last.err = "none"
  /\ last.n > 0
  /\ hist[last.c].jerr
  /\ \E d \in Ids : committed[d].ex /\ committed[d].lk >= LockBump

\* the single-document operations
SingleOps ==
  {"Find", "FindFirst", "Replace", "ReplaceFirst", "Update", "UpdateFirst",
   "Delete", "DeleteFirst"}

\* C7: a single-document operation that reaches the database with an id or
\* filter that matches no document returns (false, nil) and changes no
\* document; it returns found only if a document matched; a failure of
\* the driver or of the translation of the filter or the update returns
\* (false, err) with an error; an error never comes with found, and the
\* error of a missing document is never returned.
C7_Missing ==
  [][(nops' # nops /\ last'.op \in SingleOps) =>
       /\ (Match(View(last'.c), last'.q) = {}
             /\ last'.calls # <<>> /\ ~last'.drv)
            => /\ last'.err = "none"
               /\ ~last'.found
               /\ committed' = committed
               /\ local' = local
       /\ last'.found => Match(View(last'.c), last'.q) # {}
       /\ (last'.drv \/ last'.q.kind = "bad" \/ last'.upd = "bad")
            => /\ last'.err # "none"
               /\ ~last'.found
       /\ last'.err # "none" => ~last'.found
       /\ ~IsMissing(last'.err)]_vars

\* C7 witness: a Delete of an id that no document has has reached the
\* database and returned (false, nil)
C7_Witness ==
  /\ last.op = "Delete"
  /\ last.calls = <<"FindOneAndDelete">>
  /\ ~last.found
  /\ last.err = "none"
  /\ ~committed[last.q.id].ex

\* C7 witness of the other outcome: a driver failure of an Update has
\* returned (false, err)
C7_WitnessError ==
  /\ last.op = "Update"
  /\ last.drv
  /\ last.err = "Driver"
  /\ ~last.found

\* the reads of many documents that require a transaction
BulkReads ==
  {"FindAll", "FindEach", "ProjectAll", "ProjectEach", "Count", "Distinct"}

\* C9: a FindAll (given a list), FindEach, ProjectAll, ProjectEach, Count or
\* Distinct with lock = false by a caller outside a transaction returns
\* TransactionRequired without a database call or a change unless the merged
\* flags have NoTransaction; with that flag, and inside a transaction whatever
\* the flags, it never returns TransactionRequired and goes to the database
\* unless the translation of an argument fails.
C9_BulkNeedsTransaction ==
  [][(nops' # nops /\ last'.op \in BulkReads /\ ~last'.lock
        /\ last'.err # "List")
       => IF last'.c = NoTx /\ ~Has(last'.flags, NoTransaction)
          THEN /\ last'.err = "TransactionRequired"
               /\ ~last'.found
               /\ last'.calls = <<>>
               /\ committed' = committed
               /\ local' = local
          ELSE /\ last'.err # "TransactionRequired"
               /\ last'.err # "Translate" => last'.calls # <<>>
               /\ last'.err \in {"none", "Validation"}
                    => Len(last'.calls) = 1]_vars

\* C9 witness: a Count without lock and without NoTransaction outside a
\* transaction has returned TransactionRequired
C9_Witness ==
  /\ last.op = "Count"
  /\ ~last.lock
  /\ last.c = NoTx
  /\ ~Has(last.flags, NoTransaction)
  /\ last.err = "TransactionRequired"

\* C9 witness of the other case: a Distinct outside a transaction with
\* NoTransaction has run
C9_WitnessRuns ==
  /\ last.op = "Distinct"
  /\ last.c = NoTx
  /\ Has(last.flags, NoTransaction)
  /\ last.err = "none"
  /\ last.calls = <<"Distinct">>

\* C10: inside a transaction, a FindFirst with lock and skip > 0, and a
\* FindAll, FindEach, ProjectAll, ProjectEach or Count with lock and skip > 0
\* or limit > 0, return an error, make no database call and change no
\* document, so no counter is incremented and nothing is read.
C10_LockSkip ==
  [][(/\ nops' # nops
      /\ last'.c # NoTx
      /\ last'.lock
      /\ \/ last'.op = "FindFirst" /\ last'.skip > 0
         \/ /\ last'.op \in {"FindAll", "FindEach", "ProjectAll",
                             "ProjectEach", "Count"}
            /\ (last'.skip > 0 \/ last'.limit > 0))
       => /\ last'.err \in {"LockSkip", "List"}
          /\ ~last'.found
          /\ last'.calls = <<>>
          /\ local' = local
          /\ committed' = committed]_vars

\* C10 witness: a Count with lock and a limit inside a transaction that holds
\* a document has been rejected
C10_Witness ==
  /\ last.op = "Count"
  /\ last.c # NoTx
  /\ last.lock
  /\ last.limit > 0
  /\ last.err = "LockSkip"
  /\ \E d \in Ids : local[last.c][d].ex

\* C2: a transaction t that has read a document by Find without lock and has
\* written it by Update after another transaction, which had locked the
\* document by Find while t was running, has committed, is aborted: the
\* Store.T of t returns an error and the committed documents stay as they
\* are.
C2_FencedWriterAborts ==
  [][\A t \in Txns :
       (hist[t].doomed /\ Running(t) /\ tstate'[t] = "done")
         => /\ last'.op = "T"
            /\ last'.c = t
            /\ last'.err # "none"
            /\ committed' = committed]_vars

\* C2 witness: the T of such a transaction, whose callback returned nil, has
\* returned the error of the commit
C2_Witness ==
  /\ last.op = "T"
  /\ hist[last.c].doomed
  /\ last.cb = "none"
  /\ last.err = "Driver"
  /\ \E u \in Txns \ {last.c} : tstate[u] = "done" /\ hist[u].flk # {}

\* the ids of the committed documents after and before a step
IdsAfter == {d \in Ids : committed'[d].ex}
IdsBefore == {d \in Ids : committed[d].ex}

\* an Upsert step right after an Upsert with the same arguments
Rerun ==
  /\ last.op = "Upsert"
  /\ last.err = "none"
  /\ last'.c = last.c
  /\ last'.q = last.q
  /\ last'.upd = last.upd

\* C8 (as stated): an Upsert returns inserted exactly when the document it
\* returns has the token of this call, exactly when no document matched the
\* filter; and an Upsert right after an Upsert with the same arguments
\* returns inserted = false and creates no document.
C8_RerunNeverInserts ==
  [][(nops' # nops /\ last'.op = "Upsert" /\ last'.err = "none")
       => /\ last'.found <=> (last'.model.tk = ntok')
          /\ last'.found <=> (Match(View(last'.c), last'.q) = {})
          /\ Rerun => (~last'.found /\ IdsAfter = IdsBefore)]_vars

\* C8 (amended): an Upsert returns inserted exactly when the document it
\* returns has the token of this call, exactly when no document matched the
\* filter; when a document matched, one matching document is updated and no
\* document is created; when none matched, one document is created; an
\* Upsert right after an Upsert with the same arguments returns inserted =
\* false and creates no document provided a document matches the filter at
\* that time, and inserts again when the update has taken the document of
\* the first call out of the filter.
C8_Upsert ==
  [][(nops' # nops /\ last'.op = "Upsert" /\ last'.err = "none")
       => /\ ntok' = ntok + 1
          /\ last'.found <=> (last'.model.tk = ntok')
          /\ last'.found <=> (Match(View(last'.c), last'.q) = {})
          /\ ~last'.found
               => /\ IdsAfter = IdsBefore
                  /\ \E d \in Match(View(last'.c), last'.q) :
                       /\ ViewAfter(last'.c) =
                            [View(last'.c) EXCEPT ![d] = last'.model]
                       /\ last'.model =
                            ApplyUpdate(View(last'.c)[d], last'.upd,
                                        IF last'.lock THEN 1 ELSE 0)
          /\ last'.found
               => \E d \in Ids :
                    /\ ~View(last'.c)[d].ex
                    /\ ViewAfter(last'.c) =
                         [View(last'.c) EXCEPT ![d] = last'.model]
          /\ (Rerun /\ Match(View(last'.c), last'.q) # {})
               => (~last'.found /\ IdsAfter = IdsBefore)
          /\ (Rerun /\ Match(View(last'.c), last'.q) = {})
               => last'.found]_vars

\* C8 witness: an Upsert right after an Upsert with the same arguments has
\* matched the document the first one inserted and returned inserted = false
C8_Witness ==
  /\ last.op = "Upsert"
  /\ last.err = "none"
  /\ ~last.found
  /\ last.model.tk = ntok - 1
  /\ ntok = 2

\* C11 (as stated): a Project or ProjectFirst with lock = true and skip = 0
\* inside a transaction, on an id or filter that matches a document and
\* without a failure of the translation or the driver, returns found = true
\* without error and raises the lock counter of a matching document by 1.
C11_ProjectLocks ==
  [][(/\ nops' # nops
      /\ last'.op \in {"Project", "ProjectFirst"}
      /\ last'.lock
      /\ last'.c # NoTx
      /\ last'.skip = 0
      /\ Match(View(last'.c), last'.q) # {}
      /\ last'.err \notin {"Translate", "Driver"})
       => /\ last'.err = "none"
          /\ last'.found
          /\ \E d \in Match(View(last'.c), last'.q) :
               ViewAfter(last'.c)[d].lk = View(last'.c)[d].lk + 1]_vars

\* C11 witness: a Project with lock inside a transaction on the id of an
\* existing document has been rejected for locking with a limit, and the
\* counter of the document is as committed
C11_Witness ==
  /\ last.op = "Project"
  /\ last.lock
  /\ last.c # NoTx
  /\ local[last.c][last.q.id].ex
  /\ last.err = "LockSkip"
  /\ ~last.found
  /\ local[last.c][last.q.id].lk = committed[last.q.id].lk

\* the number of documents a count of m matches gives with skip and limit
Counted(m, skip, limit) ==
  LET r == IF m > skip THEN m - skip ELSE 0
  IN IF limit > 0 /\ limit < r THEN limit ELSE r

\* C12: a Count with lock that succeeds runs inside a transaction, raises the
\* lock counter of every document that matches the filter by exactly 1,
\* changes nothing else, and returns the number of matching documents; a
\* Count without lock that succeeds changes no document and returns the
\* number of matches left after skip and limit.
C12_Count ==
  [][(nops' # nops /\ last'.op = "Count" /\ last'.err = "none") =>
       IF last'.lock
       THEN /\ last'.c # NoTx
            /\ last'.calls = <<"UpdateMany">>
            /\ \A d \in Ids :
                 ViewAfter(last'.c)[d] =
                   IF d \in Match(View(last'.c), last'.q)
                   THEN [View(last'.c)[d] EXCEPT !.lk = @ + 1]
                   ELSE View(last'.c)[d]
            /\ last'.n = Cardinality(Match(View(last'.c), last'.q))
            /\ committed' = committed
       ELSE /\ committed' = committed
            /\ local' = local
            /\ last'.calls = <<"CountDocuments">>
            /\ last'.n = Counted(Cardinality(Match(View(last'.c), last'.q)),
                                 last'.skip, last'.limit)]_vars

\* C12 witness: a Count with lock has locked two documents and returned 2
C12_Witness ==
  /\ last.op = "Count"
  /\ last.lock
  /\ last.err = "none"
  /\ last.n = 2
  /\ \A d \in {1, 2} : local[last.c][d].lk = committed[d].lk + 1

\* C12 witness without lock: a Count with skip over two matches has
\* returned 1
C12_WitnessSkip ==
  /\ last.op = "Count"
  /\ ~last.lock
  /\ last.err = "none"
  /\ last.skip = 1
  /\ last.n = 1
  /\ Cardinality(Match(View(last.c), last.q)) = 2

\* the document a model is stored as
DocOf(m) == Doc(m.lk, m.title, 0)

\* C13: an Insert or InsertAll of models of the Manager's type leaves every
\* model with an id: a zero id has become a new id, which no document and no
\* other model of the batch has, a non-zero id is as it was, and nothing else
\* of a model has changed; unless NoValidation is set, a batch with a model
\* that fails Validate returns the validation error without a database call
\* and without a change of any document; after a success every model of the
\* batch is stored under its id.
C13_Insert ==
  [][(/\ nops' # nops
      /\ last'.op \in {"Insert", "InsertAll"}
      /\ \A i \in 1..Len(last'.batch) : last'.batch[i].meta = "ok")
       => /\ Len(last'.stored) = Len(last'.batch)
          /\ \A i \in 1..Len(last'.batch) :
               /\ last'.stored[i].id # ZeroID
               /\ last'.stored[i] =
                    [last'.batch[i] EXCEPT !.id = last'.stored[i].id]
               /\ last'.batch[i].id # ZeroID
                    => last'.stored[i].id = last'.batch[i].id
               /\ last'.batch[i].id = ZeroID
                    => /\ ~View(last'.c)[last'.stored[i].id].ex
                       /\ \A j \in 1..Len(last'.batch) :
                            j # i => last'.stored[j].id # last'.stored[i].id
          /\ (/\ ~Has(last'.flags, NoValidation)
              /\ \E i \in 1..Len(last'.batch) : ~Validate(last'.batch[i]))
               => /\ last'.err = "Validation"
                  /\ last'.calls = <<>>
                  /\ committed' = committed
                  /\ local' = local
          /\ last'.err = "none"
               => \A i \in 1..Len(last'.batch) :
                    ViewAfter(last'.c)[last'.stored[i].id] =
                      DocOf(last'.stored[i])]_vars

\* C13 witness: an InsertAll of a valid model with a zero id and a model that
\* fails Validate has given the first model an id and returned the
\* validation error
C13_Witness ==
  /\ last.op = "InsertAll"
  /\ Len(last.batch) >= 2
  /\ last.batch[1].id = ZeroID
  /\ Validate(last.batch[1])
  /\ last.stored[1].id # ZeroID
  /\ ~Validate(last.batch[2])
  /\ last.err = "Validation"

\* C13 witness of the success: an InsertAll has stored a model under the id
\* it brought and a model with a zero id under a new id
C13_WitnessStored ==
  /\ last.op = "InsertAll"
  /\ last.err = "none"
  /\ last.c = NoTx
  /\ Len(last.batch) = 2
  /\ last.batch[1].id # ZeroID
  /\ last.batch[2].id = ZeroID
  /\ committed[last.stored[2].id] = DocOf(last.stored[2])

\* the id of model i of the last call is taken when the call reaches it
Taken(i) ==
  \/ committed[last'.stored[i].id].ex
  \/ \E j \in 1..(i - 1) : last'.stored[j].id = last'.stored[i].id

\* C14: an InsertAll outside a transaction that reaches the database with a
\* working driver stores the models in order up to the first whose id is
\* taken: the models before it are stored, that model and the ones after it
\* are not, every other document is as it was, and the call returns an
\* error; it returns nil exactly when no id of the batch is taken.
C14_InsertAllStops ==
  [][(/\ nops' # nops
      /\ last'.op = "InsertAll"
      /\ last'.c = NoTx
      /\ last'.calls # <<>>
      /\ ~last'.drv)
       => LET n == Len(last'.stored)
              bad == {i \in 1..n : Taken(i)}
              k == IF bad = {} THEN n + 1 ELSE SetMin(bad)
          IN /\ last'.err = (IF bad = {} THEN "none" ELSE "Duplicate")
             /\ last'.n = k - 1
             /\ \A d \in Ids :
                  committed'[d] =
                    IF \E i \in 1..(k - 1) : last'.stored[i].id = d
                    THEN DocOf(last'.stored[CHOOSE i \in 1..(k - 1) :
                                              last'.stored[i].id = d])
                    ELSE committed[d]]_vars

\* C14 witness: an InsertAll of three models outside a transaction was
\* rejected at the second: the first is stored, the third is not
C14_Witness ==
  /\ last.op = "InsertAll"
  /\ last.c = NoTx
  /\ last.err = "Duplicate"
  /\ Len(last.stored) = 3
  /\ last.n = 1
  /\ committed[last.stored[1].id] = DocOf(last.stored[1])
  /\ last.stored[3].id \notin {last.stored[1].id, last.stored[2].id}
  /\ ~committed[last.stored[3].id].ex

\* an InsertIfMissing step that returns without error
Iim == nops' # nops /\ last'.op = "InsertIfMissing" /\ last'.err = "none"

\* the documents that match the filter of the last call before the call
IimMatch == Match(View(last'.c), last'.q)

\* an InsertIfMissing that matched a document: no document is added and no
\* document changes, but for one matching document whose lock counter is
\* one higher when lock is set
IimMatched ==
  /\ ~last'.found
  /\ IF last'.lock
     THEN \E d \in IimMatch :
            /\ ViewAfter(last'.c) =
                 [View(last'.c) EXCEPT ![d] = [@ EXCEPT !.lk = @ + 1]]
     ELSE ViewAfter(last'.c) = View(last'.c)

\* C15 (as stated): an InsertIfMissing that returns without error returns
\* inserted = true exactly when no document matched the filter, and then the
\* model is stored as it is; when a document matched it returns inserted =
\* false, adds no document and changes nothing but the lock counter of the
\* matched document, raised by 1 when lock is set.
C15_StoresModel ==
  [][Iim =>
       IF IimMatch = {}
       THEN /\ last'.found
            /\ ViewAfter(last'.c) =
                 [View(last'.c) EXCEPT
                    ![last'.stored[1].id] = DocOf(last'.stored[1])]
       ELSE IimMatched]_vars

\* C15 (amended): as stated, but the document stored for the model has the
\* lock counter of the model raised by 1 when lock is set.
C15_InsertIfMissing ==
  [][Iim =>
       IF IimMatch = {}
       THEN /\ last'.found
            /\ ~View(last'.c)[last'.stored[1].id].ex
            /\ ViewAfter(last'.c) =
                 [View(last'.c) EXCEPT
                    ![last'.stored[1].id] =
                       [DocOf(last'.stored[1]) EXCEPT
                          !.lk = @ + (IF last'.lock THEN 1 ELSE 0)]]
       ELSE IimMatched]_vars

\* C15 witness: an InsertIfMissing with lock inside a transaction has found
\* no match and stored the model with a lock counter one above the model's
C15_Witness ==
  /\ last.op = "InsertIfMissing"
  /\ last.err = "none"
  /\ last.found
  /\ last.lock
  /\ last.c # NoTx
  /\ local[last.c][last.stored[1].id].ex
  /\ local[last.c][last.stored[1].id].lk = last.stored[1].lk + 1

\* C15 witness of the other case: an InsertIfMissing with lock has matched a
\* document and returned inserted = false
C15_WitnessMatched ==
  /\ last.op = "InsertIfMissing"
  /\ last.err = "none"
  /\ ~last.found
  /\ last.lock
  /\ last.n = 1
  /\ \E d \in Ids : local[last.c][d].ex /\ local[last.c][d].lk > 0

\* another transaction that is running has inserted a document for the
\* filter of the last call
RacedBy(c) ==
  \E u \in Txns \ {c} :
    /\ tstate[u] = "active"
    /\ \E p \in hist[u].ins : p[1] = last'.q

\* C16: no unique index covering the filter, the Manager does nothing to
\* keep two concurrent InsertIfMissing calls with the same filter from both
\* inserting: a call inside a transaction whose snapshot holds no match
\* returns inserted = true and stores its model although another running
\* transaction has inserted a document for the same filter, and a
\* transaction that commits leaves every document it has inserted in the
\* collection next to the documents that were there.
C16_NoUniqueness ==
  [][/\ (/\ Iim
         /\ last'.c # NoTx
         /\ RacedBy(last'.c)
         /\ IimMatch = {})
          => /\ last'.found
             /\ local'[last'.c][last'.stored[1].id].ex
             /\ \A u \in Txns \ {last'.c} :
                  tstate[u] = "active"
                    => \A p \in hist[u].ins : p[2] # last'.stored[1].id
     /\ (last'.op = "T" /\ last'.err = "none" /\ last.op # "init"
           /\ tstate' # tstate)
          => /\ \A p \in hist[last'.c].ins : committed'[p[2]].ex
             /\ \A d \in Ids : committed[d].ex => committed'[d].ex]_vars

\* C16 witness: two transactions that ran at the same time have both
\* returned inserted = true for the same filter and have both committed:
\* two documents that match the filter exist
C16_Witness ==
  \E t, u \in Txns :
    /\ t # u
    /\ tstate[t] = "done"
    /\ tstate[u] = "done"
    /\ \E p \in hist[t].ins, r \in hist[u].ins :
         /\ p[1] = r[1]
         /\ p[2] # r[2]
         /\ {p[2], r[2]} \subseteq Match(committed, p[1])
         /\ Cardinality(Match(committed, p[1])) >= 2

\* C17: a Replace or ReplaceFirst that returns without error has raised the
\* lock counter of the model by LockBump when lock is set (and then runs
\* inside a transaction) and left it as supplied otherwise; it returns
\* found = true exactly when a document matched, and then the document it
\* matched (for Replace the one with the id of the model) is stored as the
\* model with that lock counter, every other document as it was; when no
\* document matched nothing changes.
C17_Replace ==
  [][(/\ nops' # nops
      /\ last'.op \in {"Replace", "ReplaceFirst"}
      /\ last'.err = "none")
       => LET S == Match(View(last'.c), last'.q)
              m == last'.stored[1]
          IN /\ last'.lock => last'.c # NoTx
             /\ m = [last'.batch[1] EXCEPT
                       !.lk = @ + (IF last'.lock THEN LockBump ELSE 0)]
             /\ last'.found = (S # {})
             /\ last'.calls = <<"ReplaceOne">>
             /\ IF S = {}
                THEN ViewAfter(last'.c) = View(last'.c)
                ELSE \E d \in S :
                       /\ last'.op = "Replace" => d = m.id
                       /\ ViewAfter(last'.c) =
                            [View(last'.c) EXCEPT ![d] = DocOf(m)]]_vars

\* C17 witness: a ReplaceFirst with lock inside a transaction has stored a
\* document whose lock counter is LockBump above the one of the model
C17_Witness ==
  /\ last.op = "ReplaceFirst"
  /\ last.err = "none"
  /\ last.lock
  /\ last.found
  /\ last.batch[1].lk = 1
  /\ \E d \in Ids : local[last.c][d] = Doc(1 + LockBump, last.batch[1].title, 0)

\* C17 witness without lock: a Replace outside a transaction has stored the
\* lock counter of the model
C17_WitnessAsSupplied ==
  /\ last.op = "Replace"
  /\ last.err = "none"
  /\ ~last.lock
  /\ last.found
  /\ last.c = NoTx
  /\ committed[last.batch[1].id] = DocOf(last.batch[1])

\* the call of the last step ran with validation
Validating == ~Has(last'.flags, NoValidation)

\* the documents the last call, a FindAll, hands back
FoundAll ==
  Returned(ViewAfter(last'.c), Match(View(last'.c), last'.q), "none",
           last'.skip, last'.limit)

\* what C18 says of the documents handed back by the finds and of the
\* models handed in for writing
ValidatedFinds ==
  /\ (/\ nops' # nops
      /\ last'.op \in {"Find", "FindFirst"}
      /\ Validating
      /\ last'.err = "none"
      /\ last'.found)
       => Validate(last'.model)
  /\ (nops' # nops /\ last'.op = "FindAll" /\ Validating /\ last'.err = "none")
       => \A m \in FoundAll : Validate(m)
  /\ (/\ last'.op = "Decode"
      /\ Validating
      /\ last'.err = "none")
       => Validate(last'.model) /\ last'.model = iter.cur

ValidatedWrites ==
  (/\ nops' # nops
   /\ last'.op \in {"Insert", "InsertAll", "InsertIfMissing", "Replace",
                     "ReplaceFirst"}
   /\ Validating
   /\ \E i \in 1..Len(last'.batch) : ~Validate(last'.batch[i]))
    => /\ last'.err # "none"
       /\ last'.calls = <<>>
       /\ committed' = committed
       /\ local' = local

\* C18 (as stated): unless NoValidation is set, a document that Find,
\* FindFirst, FindAll, Decode, Update, UpdateFirst, Upsert, Delete or
\* DeleteFirst hands back with success is valid, and a model that is not
\* valid makes Insert, InsertAll, InsertIfMissing, Replace and ReplaceFirst
\* return an error before the database is called.
C18_AllValidated ==
  [][/\ ValidatedFinds
     /\ ValidatedWrites
     /\ (/\ nops' # nops
         /\ last'.op \in {"Update", "UpdateFirst", "Upsert", "Delete",
                           "DeleteFirst"}
         /\ last'.err = "none"
         /\ last'.found
         /\ last'.model.ex)
          => Validate(last'.model)]_vars

\* C18 (amended): as stated for the finds and for the writes of a model;
\* Update, UpdateFirst, Upsert, Delete and DeleteFirst take no flags and
\* hand the document back as the database returned it, valid or not.
C18_Validated ==
  [][/\ ValidatedFinds
     /\ ValidatedWrites
     /\ (/\ nops' # nops
         /\ last'.op \in {"Update", "UpdateFirst", "Upsert", "Delete",
                           "DeleteFirst"}
         /\ last'.err = "none"
         /\ last'.found
         /\ last'.model.ex)
          => /\ last'.flags = 0
             /\ last'.op \in {"Update", "UpdateFirst", "Upsert"}
                  => \E d \in Ids : ViewAfter(last'.c)[d] = last'.model
             /\ last'.op \in {"Delete", "DeleteFirst"}
                  => \E d \in Ids : /\ View(last'.c)[d] = last'.model
                                    /\ ~ViewAfter(last'.c)[d].ex]_vars

\* C18 witness: a Find has returned the validation error for a stored
\* document that is not valid
C18_Witness ==
  /\ last.op = "Find"
  /\ ~Has(last.flags, NoValidation)
  /\ last.err = "Validation"
  /\ ~last.found
  /\ ~Validate(last.model)

\* C18 witness of the amendment: an Update has handed back a document that
\* is not valid with success
C18_WitnessUpdate ==
  /\ last.op = "Update"
  /\ last.err = "none"
  /\ last.found
  /\ last.model.ex
  /\ ~Validate(last.model)

\* C18 witness of the writes: a Replace has returned the validation error
C18_WitnessWrite ==
  /\ last.op = "Replace"
  /\ last.err = "Validation"
  /\ ~Validate(last.batch[1])

\* C19: a Decode with a model of another type returns MetaMismatch and
\* decodes nothing; with a model of the iterator's type (and a decode that
\* does not fail) the model holds the loaded document afterwards, and the
\* call returns the validation error exactly when the document is not valid
\* and the FindEach that made the iterator ran without NoValidation, nil
\* otherwise; the iterator keeps its validate field from FindEach to Close.
C19_Decode ==
  [][/\ (nops' # nops /\ last'.op = "FindEach" /\ last'.err = "none")
          => iter'.open /\ iter'.validate = Validating
     /\ last'.op \in {"Next", "Decode"} => iter'.validate = iter.validate
     /\ last'.op = "Decode"
          => /\ iter' = iter
             /\ Validating = iter.validate
             /\ last'.mdl # "ok"
                  => last'.err = "MetaMismatch" /\ last'.model = NoDoc
             /\ (last'.mdl = "ok" /\ ~last'.drv)
                  => /\ last'.model = iter.cur
                     /\ last'.err =
                          (IF iter.validate /\ ~Validate(iter.cur)
                           THEN "Validation" ELSE "none")]_vars

\* C19 witness: a Decode of a document that is not valid has returned the
\* validation error
C19_Witness ==
  /\ last.op = "Decode"
  /\ last.mdl = "ok"
  /\ iter.validate
  /\ last.err = "Validation"
  /\ last.model = iter.cur
  /\ ~Validate(iter.cur)

\* C19 witness with NoValidation: a Decode of a document that is not valid
\* has returned nil
C19_WitnessNoValidation ==
  /\ last.op = "Decode"
  /\ ~iter.validate
  /\ last.err = "none"
  /\ last.model = iter.cur
  /\ ~Validate(iter.cur)

\* C19 witness of the type check: a Decode has returned MetaMismatch
C19_WitnessMismatch ==
  /\ last.op = "Decode"
  /\ last.mdl = "other"
  /\ last.err = "MetaMismatch"
  /\ iter.cur.ex

\* the calls of the receiver with event ev so far
Calls(ev) == {i \in 1..Len(stream.log) : stream.log[i].ev = ev}

\* C20 (as stated): Opened is delivered at most once over the life of a
\* stream, whatever the receiver has returned.
C20_OpenedOnce == Cardinality(Calls("opened")) <= 1

\* C20 (amended): the flag opened says that the receiver has returned nil
\* for an Opened event; no Opened is delivered after that and no Resumed
\* before it, so every establishment of the feed delivers Opened until the
\* receiver has accepted one, and Resumed from then on.
C20_OpenedUntilAccepted ==
  /\ stream.opened
       = (\E i \in Calls("opened") : stream.log[i].ret = "nil")
  /\ \A i \in Calls("opened") :
       stream.log[i].ret = "nil"
         => \A j \in Calls("opened") : j <= i
  /\ \A j \in Calls("resumed") :
       \E i \in Calls("opened") : i < j /\ stream.log[i].ret = "nil"

\* C20 witness: the receiver has returned an error for Opened, Opened was
\* delivered again, accepted, and the next establishment delivered Resumed
C20_Witness ==
  \E i, j, k \in 1..Len(stream.log) :
    /\ i < j
    /\ j < k
    /\ stream.log[i].ev = "opened"
    /\ stream.log[i].ret = "err"
    /\ stream.log[j].ev = "opened"
    /\ stream.log[j].ret = "nil"
    /\ stream.log[k].ev = "resumed"

\* the stream has made a call of the receiver
Called == stream.call.ev # "none"

\* the calls of the receiver made in a step
NewCalls == SubSeq(stream'.log, Len(stream.log) + 1, Len(stream'.log))

\* tail reads and decodes the next change of the feed in a step
Reads ==
  /\ stream.pc = "next"
  /\ stream'.pos = stream.pos + 1
  /\ stream'.err # "decode"

\* the change tail reads in such a step
Read == stream.feed[stream.pos + 1]

\* the notifications that invalidate a stream
Notifications == {"drop", "rename", "dropDatabase", "invalidate"}

\* C21 (as stated): when tail reads a drop, rename, dropDatabase or
\* invalidate notification, it returns the invalidated error, which open
\* hands to the receiver in an Errored event, and the receiver is not called
\* for the notification with any other event kind.
C21_Invalidates ==
  [][Reads /\ Read.type \in Notifications
       => /\ stream'.pc = "errored"
          /\ stream'.err = "invalidated"
          /\ NewCalls = <<>>]_vars

\* C21 witness of the divergence: a rename notification has been handed to
\* the receiver with the empty event kind, and its token has been stored
C21_RenameDelivered ==
  /\ Len(stream.feed) = 1
  /\ stream.feed[1].type = "rename"
  /\ stream.token = 1
  /\ \E i \in 1..Len(stream.log) :
       /\ stream.log[i].ev = ""
       /\ stream.log[i].tok = 1
       /\ stream.log[i].ret = "nil"

C23_LockSkipped ==
  [][Reads /\ Read.type = "update"
       => IF Read.removed = {} /\ Read.updated = {"_lk"}
          THEN /\ NewCalls = <<>>
               /\ stream'.token = stream.pos + 1
               /\ stream'.pc = "next"
          ELSE Read.full
                 => /\ Len(NewCalls) = 1
                    /\ NewCalls[1].ev = "updated"
                    /\ NewCalls[1].doc
                    /\ NewCalls[1].err = "none"
                    /\ NewCalls[1].tok = stream.pos + 1]_vars

\* C23 witness: an update of the lock alone has been read and its token
\* stored without a call of the receiver for it
C23_Witness ==
  /\ Len(stream.feed) = 1
  /\ stream.feed[1] = Change("update", {"_lk"}, {}, TRUE)
  /\ stream.token = 1
  /\ stream.pc = "next"
  /\ \A i \in 1..Len(stream.log) : stream.log[i].ev = "opened"

\* C23 witness: an update of the lock and another field has been delivered
C23_WitnessUpdated ==
  /\ Len(stream.feed) = 1
  /\ stream.feed[1] = Change("update", {"_lk", "title"}, {}, TRUE)
  /\ stream.call.ev = "updated"
  /\ stream.call.ret = "nil"
  /\ stream.token = 1

\* the calls of the receiver for a change so far
ChangeCalls ==
  {i \in 1..Len(stream.log) :
     stream.log[i].ev \notin {"opened", "resumed", "errored", "stopped"}}

\* the latest call of the receiver for a change
LastChange == stream.log[SetMax(ChangeCalls)]

\* the feed is opened in a step
Reopens == stream.pc = "open" /\ stream'.pc = "signal"

\* C24 (as stated): the stored token changes only when tail reads a change
\* and either the receiver returns nil for it or tail passes over it, and
\* becomes the token of that change; a change for which the receiver
\* returns an error leaves the token as it is, and when the feed is opened
\* again after that, it is opened just before that change, so that the
\* change is the next to be read and delivered.
C24_TokenOfAccepted ==
  [][/\ stream'.token # stream.token
          => /\ Reads
             /\ stream'.token = stream.pos + 1
             /\ stream'.pc = "next"
             /\ \/ NewCalls = <<>>
                \/ /\ Len(NewCalls) = 1
                   /\ NewCalls[1].ret = "nil"
                   /\ NewCalls[1].tok = stream.pos + 1
     /\ Reads /\ NewCalls # <<>> /\ NewCalls[1].ret # "nil"
          => stream'.token = stream.token
     /\ Reopens /\ ChangeCalls # {} /\ LastChange.ret # "nil"
          => stream'.pos + 1 = LastChange.tok]_vars

\* C24 witness of the divergence: no token is stored, the receiver has
\* returned an error for the first change, the feed has been opened again,
\* and tail stands after that change: it is not read again
C24_Lost ==
  /\ stream.token = 0
  /\ stream.pc = "next"
  /\ stream.pos >= 1
  /\ ChangeCalls # {}
  /\ LastChange.tok = 1
  /\ LastChange.ret = "err"
  /\ stream.log[Len(stream.log)].ev \in {"opened", "resumed"}
  /\ stream.log[Len(stream.log)].ret = "nil"

\* the latest call of the receiver hands it change i of the feed
Delivered(i) ==
  /\ stream.call.ev \notin {"none", "opened", "resumed", "errored", "stopped"}
  /\ stream.call.tok = i

\* the changes after the token the stream was opened with
ToDeliver == (stream.start + 1)..Len(stream.feed)

\* the stream is not closed, the receiver never returns ErrStop and from
\* some time on the feed does not fail
KeptOpen ==
  /\ []stream.alive
  /\ [](stream.call.ret # "stop")
  /\ <>[](~stream.down)

\* C25 (as stated): a stream opened with the token of change k never hands
\* a change up to k to the receiver, and when the stream is kept open and
\* the feed stays available in the end, every change after k is handed to
\* the receiver at some time.
C25_DeliversAll ==
  /\ [](\A i \in 1..stream.start : ~Delivered(i))
  /\ \A i \in 1..MaxChanges :
       KeptOpen => <>(stream.start > 0 /\ i \in ToDeliver => Delivered(i))

\* C25 (amended): a stream opened with the token of change k never hands a
\* change up to k to the receiver; when it is kept open, the feed stays
\* available in the end, the receiver returns nil in the end and no change
\* after k invalidates the stream, every change after k that tail does not
\* pass over is handed to the receiver at some time.
C25_DeliversAccepted ==
  /\ [](\A i \in 1..stream.start : ~Delivered(i))
  /\ \A i \in 1..MaxChanges :
       KeptOpen /\ <>[](stream.call.ret = "nil")
         => <>(/\ stream.start > 0
               /\ i \in ToDeliver
               /\ \A j \in ToDeliver : ~Invalidating(stream.feed[j].type)
               /\ ~Skipped(stream.feed[i])
               => Delivered(i))

\* C25 witness: a stream opened with the token of the first change has
\* handed the second change to the receiver
C25_Witness ==
  /\ stream.start = 1
  /\ Len(stream.feed) = 2
  /\ Delivered(2)
  /\ stream.call.ret = "nil"
  /\ stream.token = 2

\* C26: when the receiver has returned ErrStop for an event, open is about
\* to signal Stopped or has done so as the next and last call of the
\* receiver; Stopped is never followed by a call, and when the goroutine of the
\* stream has ended, Stopped has been signalled exactly once.
C26_StoppedLast ==
  /\ \A i \in 1..Len(stream.log) :
       /\ stream.log[i].ret = "stop"
            => IF i = Len(stream.log) THEN stream.pc = "stopped"
               ELSE stream.log[i + 1].ev = "stopped"
       /\ stream.log[i].ev = "stopped"
            => i = Len(stream.log) /\ stream.pc = "done"
  /\ stream.pc = "done" => Cardinality(Calls("stopped")) = 1

\* C26 witness: the receiver has returned ErrStop for an Updated event and
\* the goroutine has ended with Stopped
C26_Witness ==
  /\ stream.pc = "done"
  /\ Len(stream.log) >= 2
  /\ stream.log[Len(stream.log) - 1].ev = "updated"
  /\ stream.log[Len(stream.log) - 1].ret = "stop"
  /\ stream.log[Len(stream.log)].ev = "stopped"

\* C26 witness: the goroutine has ended with Stopped after Close
C26_WitnessClosed ==
  /\ stream.pc = "done"
  /\ stream.closer = "wait"
  /\ \A i \in 1..Len(stream.log) : stream.log[i].ret # "stop"
  /\ Calls("errored") # {}

\* the feed fails in a step: Watch returns an error, a change cannot be
\* decoded, or Next returns false on a stream that is not killed
FeedFails ==
  /\ stream.alive
  /\ stream.pc \in {"open", "next"}
  /\ stream'.closer = stream.closer
  /\ stream' # stream
  /\ stream'.down

\* C27 (as stated): when the feed fails, or the receiver returns an error
\* other than ErrStop for an event other than Errored, open is about to
\* signal Errored with that error; Errored carries the error tail has
\* returned, and when the receiver answers it with nil the feed is opened
\* again; and every call of the receiver for a change comes after an Opened
\* or Resumed the receiver has accepted, with no Errored in between.
C27_ErroredThenReopened ==
  /\ [][/\ FeedFails
             => /\ stream'.pc = "errored"
                /\ stream'.err \in {"feed", "decode"}
        /\ stream.pc # "errored" /\ NewCalls # <<>>
              /\ NewCalls[1].ret = "err"
             => stream'.pc = "errored" /\ stream'.err = "receiver"
        /\ stream.pc = "errored" /\ stream'.pc # "errored"
             => /\ Len(NewCalls) = 1
                /\ NewCalls[1].ev = "errored"
                /\ NewCalls[1].err = stream.err
                /\ NewCalls[1].ret = "nil" => stream'.pc = "open"]_vars
  /\ [](\A j \in ChangeCalls :
          \E i \in 1..(j - 1) :
            /\ stream.log[i].ev \in {"opened", "resumed"}
            /\ stream.log[i].ret = "nil"
            /\ \A k \in i..j : stream.log[k].ev # "errored")

\* C27 witness of the divergence: the feed of a stream that is not killed
\* has failed after Opened, the receiver has returned nil for every event,
\* and the feed has been opened again without an Errored event
C27_Silent ==
  /\ stream.alive
  /\ Len(stream.log) = 2
  /\ stream.log[1].ev = "opened"
  /\ stream.log[2].ev = "resumed"
  /\ stream.log[1].ret = "nil"

\* C28: a Close that waits returns at some time, the receiver returning
\* from every call; once a Close has returned, open has returned, the
\* latest call of the receiver is Stopped, and no step calls the receiver
\* or moves the goroutine, also when Close is called again and returns again.
C28_CloseWaits ==
  /\ [](stream.closed > 0
          => stream.pc = "done" /\ stream.call.ev = "stopped")
  /\ [][stream.closed > 0
          => stream'.call = stream.call /\ stream'.pc = stream.pc]_vars
  /\ (stream.closer = "wait") ~> (stream.closer = "idle")

\* C28 witness: Close has been called on a tailing stream and has returned,
\* and a second Close has returned
C28_Witness ==
  /\ stream.closed = 2
  /\ stream.closer = "idle"
  /\ stream.opened
  /\ stream.call.ev = "stopped"

\* the event kinds of a stream
EventKinds ==
  {"opened", "resumed", "created", "updated", "deleted", "errored",
   "stopped"}

\* C29 (as stated): every call of the receiver carries one of the seven
\* event kinds, whatever the operation type of the change read; a document
\* is passed only with Created and Updated, and an error only with Errored.
C29_EventKinds ==
  \A i \in 1..Len(stream.log) :
    /\ stream.log[i].ev \in EventKinds
    /\ stream.log[i].doc => stream.log[i].ev \in {"created", "updated"}
    /\ stream.log[i].err # "none" => stream.log[i].ev = "errored"

\* C29 witness of the divergence: a change of an operation type tail does
\* not know has been handed to the receiver with the empty event kind
C29_Unknown ==
  /\ Len(stream.feed) = 1
  /\ stream.feed[1].type = "other"
  /\ stream.call.ev = ""
  /\ ~stream.call.doc
  /\ stream.call.tok = 1

\* the calls of Store.M and Store.C that have returned, two by two
RetPairs == stores.rets \X stores.rets

\* C30 (as stated): two calls of Store.M, or of Store.C, with the same
\* model type on the same Store return the same object, and two calls on
\* different Stores return different objects.
C30_OneCached ==
  \A r \in RetPairs :
    r[1].op = r[2].op
      => /\ r[1].store = r[2].store /\ r[1].type = r[2].type
              => r[1].obj = r[2].obj
         /\ r[1].store # r[2].store => r[1].obj # r[2].obj

\* C30 (amended): every object returned is a Manager (Collection) made for
\* the Store and the model type of the call, so none is shared between
\* Stores or types; a call whose lookup finds an object returns the one the
\* map held at the lookup; a call whose lookup finds none makes an object
\* of its own, puts it in the map in place of what is there, and returns
\* it.
C30_CachedOrOwn ==
  /\ [](\A r \in stores.rets :
          /\ stores.objs[r.obj].kind = r.op
          /\ stores.objs[r.obj].store = r.store
          /\ stores.objs[r.obj].type = r.type)
  /\ [][\A r \in stores'.rets \ stores.rets :
          LET map == IF r.op = "M" THEN stores.managers ELSE stores.colls
              map2 == IF r.op = "M" THEN stores'.managers ELSE stores'.colls
          IN  IF r.hit THEN r.obj = map[r.store][r.type]
              ELSE /\ r.obj = Len(stores.objs) + 1
                   /\ map2[r.store][r.type] = r.obj]_vars

\* C30 witness: two first calls of Store.M for one type on one Store have
\* run concurrently and have returned two Managers
C30_Witness ==
  \E r \in RetPairs :
    /\ r[1].op = "M"
    /\ r[2].op = "M"
    /\ r[1].store = r[2].store
    /\ r[1].type = r[2].type
    /\ r[1].obj # r[2].obj

\* =================================================================== ids
\* An ID is a string. A string is a sequence of characters; the driver's
\* object id is twelve bytes, twenty-four hex digits, here IdLen digits.
IdLen == 4

\* hex digits in lower and upper case, and a character that is no hex digit
LowerHex == {"0", "f", "a"}
HexChars == LowerHex \cup {"A"}
Chars == HexChars \cup {"o"}

Strings == UNION {[1..n -> Chars] : n \in 0..(IdLen + 1)}

Foo == <<"f", "o", "o">>

\* the zero object id in hex
NilHex == [i \in 1..IdLen |-> "0"]

\* ObjectID.Hex writes lower case digits
LowerOf(c) == IF c = "A" THEN "a" ELSE c

\* primitive.ObjectIDFromHex: the length is checked, then every digit
ObjectIDFromHexFails(str) ==
  \/ Len(str) # IdLen
  \/ \E i \in 1..Len(str) : str[i] \notin HexChars

\* FromHex returns the hex of the parsed id, of the zero id if parsing
\* failed, and the error
FromHex(str) ==
  IF ObjectIDFromHexFails(str)
    THEN [ret |-> NilHex, err |-> TRUE]
    ELSE [ret |-> [i \in 1..IdLen |-> LowerOf(str[i])], err |-> FALSE]

IsHex(str) == ~FromHex(str).err

\* MustFromHex returns its argument and does nothing else
MustFromHex(str) == [ret |-> str, panicked |-> FALSE]

\* the ids New can return: the hex of a fresh object id
FreshIds == [1..IdLen -> LowerHex]

\* one call of New
IdNew ==
  /\ idcall.op = "none"
  /\ \E id \in FreshIds :
       idcall' = [op |-> "New", arg |-> <<>>, ret |-> id, err |-> FALSE,
                  panicked |-> FALSE, made |-> id]
  /\ UNCHANGED <<coreVars, stores, flagcall, glut, spark>>

\* one call of IsHex, FromHex or MustFromHex: on any string, or after New
\* on the id that New made
IdArgs == IF idcall.op = "New" THEN {idcall.made} ELSE Strings

CanCallId == idcall.op \in {"none", "New"}

IdIsHex ==
  /\ CanCallId
  /\ \E str \in IdArgs :
       idcall' = [idcall EXCEPT !.op = "IsHex", !.arg = str, !.ret = <<>>,
                                !.err = ~IsHex(str), !.panicked = FALSE]
  /\ UNCHANGED <<coreVars, stores, flagcall, glut, spark>>

IdFromHex ==
  /\ CanCallId
  /\ \E str \in IdArgs :
       idcall' = [idcall EXCEPT !.op = "FromHex", !.arg = str,
                                !.ret = FromHex(str).ret,
                                !.err = FromHex(str).err,
                                !.panicked = FALSE]
  /\ UNCHANGED <<coreVars, stores, flagcall, glut, spark>>

IdMustFromHex ==
  /\ CanCallId
  /\ \E str \in IdArgs :
       idcall' = [idcall EXCEPT !.op = "MustFromHex", !.arg = str,
                                !.ret = MustFromHex(str).ret,
                                !.err = FALSE,
                                !.panicked = MustFromHex(str).panicked]
  /\ UNCHANGED <<coreVars, stores, flagcall, glut, spark>>

\* SpecId: one call of an id function, or New and a call on its id
InitId ==
  /\ InitIdle
  /\ ExtIdle
  /\ stream = NoStream

NextId ==
  \/ IdNew
  \/ IdIsHex
  \/ IdFromHex
  \/ IdMustFromHex

SpecId == InitId /\ [][NextId]_vars

\* C31 as stated: MustFromHex panics on a string that is no valid hex id
\* and does not panic on an id that New made; IsHex is false for the empty
\* string and for a string that is no hex id, and true for an id of New.
C31_MustFromHexPanics ==
  /\ (idcall.op = "MustFromHex" /\ ObjectIDFromHexFails(idcall.arg))
       => idcall.panicked
  /\ (idcall.op = "MustFromHex" /\ idcall.made \in FreshIds
        /\ idcall.arg = idcall.made) => ~idcall.panicked
  /\ (idcall.op = "IsHex" /\ (idcall.arg = <<>> \/ idcall.arg = Foo))
       => idcall.err
  /\ (idcall.op = "IsHex" /\ idcall.made \in FreshIds
        /\ idcall.arg = idcall.made) => ~idcall.err

\* MustFromHex("foo") has returned "foo" without a panic, while IsHex("foo")
\* is false
C31_FooReturned ==
  /\ idcall.op = "MustFromHex"
  /\ idcall.arg = Foo
  /\ ~IsHex(Foo)
  /\ idcall.ret = Foo
  /\ ~idcall.panicked

\* ================================================================= flags
\* Flags is an int; its low FlagBits bits are looked at, the three flags
\* of the package and one bit that names no flag
FlagBits == 4
MaxFlags == 3

FlagValues == 0..(2^FlagBits - 1)
FlagArgs == UNION {[1..n -> FlagValues] : n \in 0..MaxFlags}

\* one call of Merge on the flag arguments of an operation
FlagMerge ==
  /\ flagcall.op = "none"
  /\ \E list \in FlagArgs :
       flagcall' = [flagcall EXCEPT !.op = "Merge", !.list = list,
                                    !.merged = Merge(list)]
  /\ UNCHANGED <<coreVars, stores, idcall, glut, spark>>

\* one call of f.Has(g)
FlagHas ==
  /\ flagcall.op = "none"
  /\ \E f \in FlagValues, g \in FlagValues :
       flagcall' = [flagcall EXCEPT !.op = "Has", !.f = f, !.g = g,
                                    !.has = Has(f, g)]
  /\ UNCHANGED <<coreVars, stores, idcall, glut, spark>>

InitFlags ==
  /\ InitIdle
  /\ ExtIdle
  /\ stream = NoStream

NextFlags ==
  \/ FlagMerge
  \/ FlagHas

SpecFlags == InitFlags /\ [][NextFlags]_vars

\* the bits that are set in a flags value
BitsOf(x) == {i \in 0..(FlagBits - 1) : (x \div (2^i)) % 2 = 1}

\* the list with two of its elements exchanged
Swapped(list, i, j) ==
  [list EXCEPT ![i] = list[j], ![j] = list[i]]

\* C32: Merge of a list of flag arguments is the bitwise OR of its elements,
\* 0 for the empty list, and the same when two arguments change places or
\* one is given once more; f.Has(g) is true exactly when every bit of g is
\* set in f; so the merged flags have NoTransaction, NoValidation or
\* TextScoreSort if and only if one of the arguments has it.
C32_MergeIsOr ==
  /\ flagcall.op = "Merge" =>
       /\ BitsOf(flagcall.merged) =
            UNION {BitsOf(flagcall.list[i]) : i \in DOMAIN flagcall.list}
       /\ flagcall.merged \in FlagValues
       /\ flagcall.list = <<>> => flagcall.merged = 0
       /\ \A i \in DOMAIN flagcall.list :
            /\ Merge(Append(flagcall.list, flagcall.list[i])) =
                 flagcall.merged
            /\ \A j \in DOMAIN flagcall.list :
                 Merge(Swapped(flagcall.list, i, j)) = flagcall.merged
       /\ \A flag \in {NoTransaction, NoValidation, TextScoreSort} :
            Has(flagcall.merged, flag) <=>
              \E i \in DOMAIN flagcall.list : Has(flagcall.list[i], flag)
  /\ flagcall.op = "Has" =>
       (flagcall.has <=> BitsOf(flagcall.g) \subseteq BitsOf(flagcall.f))

\* Merge was called with two arguments that have different flags, one of
\* them twice, and the merged flags have both but not the third
C32_Witness ==
  /\ flagcall.op = "Merge"
  /\ flagcall.list = <<NoValidation, NoTransaction, NoValidation>>
  /\ flagcall.merged = 3
  /\ Has(flagcall.merged, NoTransaction + NoValidation)
  /\ ~Has(flagcall.merged, TextScoreSort)

\* ========================================================== lock counter
\* a Manager call has returned in this step
ManagerCalled == nops' # nops /\ last'.op \notin {"init", "T"}

\* the documents of the caller's view that exist before and after the call
\* and whose lock counter is lower after it
Lowered ==
  {d \in Ids : /\ View(last'.c)[d].ex
               /\ ViewAfter(last'.c)[d].ex
               /\ ViewAfter(last'.c)[d].lk < View(last'.c)[d].lk}

\* C33 as stated: no Manager call lowers the stored lock counter of a
\* document that exists before and after it.
C33_NeverDecreases ==
  [][ManagerCalled => Lowered = {}]_vars

\* C33: no Manager call but Replace and ReplaceFirst lowers the stored lock
\* counter of a document; Replace and ReplaceFirst store the counter of the
\* model they are given, raised by LockBump when lock is set, whatever the
\* stored counter was, and lower the counter of no other document.
C33_OnlyReplaceLowers ==
  [][ManagerCalled =>
       IF last'.op \in {"Replace", "ReplaceFirst"}
       THEN \A d \in Lowered :
              /\ last'.found
              /\ ViewAfter(last'.c)[d] = DocOf(last'.stored[1])
              /\ last'.stored[1].lk =
                   last'.batch[1].lk + (IF last'.lock THEN LockBump ELSE 0)
       ELSE Lowered = {}]_vars

\* a Replace in a transaction has stored a lock counter that is lower than
\* the committed one
C33_Witness ==
  /\ last.op = "Replace"
  /\ last.err = "none"
  /\ last.found
  /\ last.c # NoTx
  /\ Running(last.c)
  /\ LET d == last.batch[1].id
     IN /\ committed[d].ex
        /\ local[last.c][d].ex
        /\ local[last.c][d].lk = last.batch[1].lk
        /\ local[last.c][d].lk < committed[d].lk

\* SpecRep: one Store.T whose callback makes MaxReps calls of Replace and
\* ReplaceFirst, with any model a caller may hold: one with the lock value
\* it was read with (0 or 1), however often the document was replaced since
MaxReps == 2

InitRep ==
  /\ committed \in [Ids -> DocInit]
  /\ tstate = [t \in Txns |-> "idle"]
  /\ local = [t \in Txns |-> NoView]
  /\ wset = [t \in Txns |-> {}]
  /\ stale = [t \in Txns |-> {}]
  /\ depth = [t \in Txns |-> 0]
  /\ ntok = 0
  /\ nops = MaxReps
  /\ last = TRec("init", NoTx, "none", "none", <<>>)
  /\ hist = [t \in Txns |-> NoHist]
  /\ iter = NoIter
  /\ stream = NoStream
  /\ stores = NoStores
  /\ ExtIdle

RepT == tstate[1] = "idle" /\ TCall(NoTx, 1, FALSE)

RepReturn == \E e \in CbErrs : TReturn(1, e, FALSE) /\ nops' = 0

RepReplace ==
  \E model \in WModels, lock \in BOOLEAN :
    DoReplace(1, model, lock, <<>>, FALSE)

RepReplaceFirst ==
  \E filter \in Filters, model \in WModels, lock \in BOOLEAN :
    DoReplaceFirst(1, filter, model, lock, <<>>, FALSE)

NextRep ==
  \/ RepT
  \/ RepReturn
  \/ RepReplace
  \/ RepReplaceFirst

SpecRep == InitRep /\ [][NextRep]_vars

\* the document a Replace or ReplaceFirst has matched
Matched ==
  IF last'.op = "Replace" THEN last'.batch[1].id
  ELSE Ordered(Match(View(last'.c), last'.q), "none")[1]

\* C34 as stated: a Replace or ReplaceFirst with lock that matches a
\* document leaves it with a stored lock counter that differs from the one
\* stored before the call, whatever lock value the supplied model carries.
C34_LockedReplaceChanges ==
  [][(/\ ManagerCalled
      /\ last'.op \in {"Replace", "ReplaceFirst"}
      /\ last'.lock
      /\ last'.err = "none"
      /\ last'.found)
       => ViewAfter(last'.c)[Matched].lk # View(last'.c)[Matched].lk]_vars

\* a Replace with lock has stored the model's counter plus LockBump, and the
\* same call with the same model (a copy with the lock value read before)
\* matches again and leaves the document as it is
C34_SameAgain ==
  /\ last.op = "Replace"
  /\ last.lock
  /\ last.err = "none"
  /\ last.found
  /\ nops > 0
  /\ Running(last.c)
  /\ local[last.c][last.batch[1].id].lk = last.batch[1].lk + LockBump
  /\ LET o == Replace(last.c, last.batch[1], TRUE, <<>>, FALSE)
     IN /\ o.err = "none"
        /\ o.found
        /\ o.view = local[last.c]

\* ======================================================= stream goroutine
\* a step calls the receiver or writes the token or the opened flag
Touches ==
  \/ stream'.token # stream.token
  \/ stream'.opened # stream.opened
  \/ stream'.call # stream.call
  \/ stream'.log # stream.log

\* a step of the goroutine that runs open: open has not returned, and the
\* step is none of Close
OfOpen ==
  /\ stream.pc \notin {"none", "done"}
  /\ stream'.closer = stream.closer
  /\ stream'.closed = stream.closed

\* C35: every call of the receiver and every write of the token and of the
\* opened flag is a step of the one goroutine that runs open, one call at a
\* time; Close, called from another goroutine, kills the tomb and waits and
\* neither calls the receiver nor touches token or flag, and nothing does
\* after open has returned.
C35_SingleGoroutine ==
  [][Touches => (OfOpen /\ Len(NewCalls) <= 1)]_vars

\* Close is waiting, and while it did the goroutine has told the receiver
\* that the stream has stopped, after an earlier call
C35_Witness ==
  /\ stream.closer = "wait"
  /\ ~stream.alive
  /\ stream.pc = "done"
  /\ Len(stream.log) >= 2
  /\ stream.log[Len(stream.log)].ev = "stopped"
  /\ stream.log[1].ev = "opened"

\* ================================================================== glut
\* One key of the glut collection (the collection has one value per key),
\* two goroutines that call Lock, SetLocked, GetLocked, DeleteLocked and
\* Unlock on it, MaxGlut calls in all, and a clock.
\* A call reads the clock in the step of its database operation.
MaxGlut == 2

GlutProcs == {"p", "q"}

\* the token a goroutine has, and the one coal.New makes for it
TokenOf(p) == IF p = "p" THEN "A" ELSE "B"
NewToken(p) == IF p = "p" THEN "P" ELSE "Q"

\* the tokens a goroutine calls with: none, its own, the other's
CallTokens == {"", "A", "B"}

\* the timeouts of Lock, the times to live of a value (0: none), and what
\* may be wrong with a value: its key or time to live, its validation
Timeouts == {0 - 1, 0, 1, 2}
TTLs == {0, 1}
Flaws == {"none", "args", "invalid"}

\* the clock runs until a lock of the longest timeout, taken at the
\* beginning, has timed out
MaxTime == SetMax(Timeouts) + 1

\* the data SetLocked writes
NewData == 1

\* GetDeadline: nil without a time to live, else that far from now
GetDeadline(now, ttl) == IF ttl = 0 THEN NoTime ELSE now + ttl

\* deadline != nil && deadline.Before(locked)
DeadlineBefore(deadline, locked) == deadline # NoTime /\ deadline < locked

\* a filter of Lock that leaves out the token and the lock time
Lockable_Always(val, token, now) == val.ex

\* the filter of Lock's UpdateFirst: the key, and unlocked, or lock timed
\* out, or the caller has the lock
Lockable(val, token, now) ==
  /\ val.ex
  /\ \/ val.token = ""
     \/ (val.locked # NoTime /\ val.locked < now)
     \/ val.token = token

\* a filter that leaves out the token
Holds_AnyToken(val, token, now) ==
  /\ val.ex
  /\ val.locked # NoTime
  /\ val.locked > now

\* the filter of SetLocked, GetLocked, DeleteLocked and Unlock: the key,
\* the caller's token and a lock time after now
Holds(val, token, now) ==
  /\ val.ex
  /\ val.token = token
  /\ val.locked # NoTime
  /\ val.locked > now

\* Unmarshal and Validate after a read: stored data has been validated
\* before it was stored; with nil data the value stays as the caller made it
ValidAfter(val, valid) == val.data # 0 \/ valid

\* a call of p returns
GlutReturns(g, p, op, token, ok, err) ==
  [g EXCEPT !.procs[p] = NoLock,
            !.ncalls = @ + 1,
            !.ret = [op |-> op, token |-> token, ok |-> ok, err |-> err]]

\* calls that have returned and calls that are under way
GlutCalls ==
  glut.ncalls + Cardinality({p \in GlutProcs : glut.procs[p].pc # "idle"})

CanCallGlut(p) == glut.procs[p].pc = "idle" /\ GlutCalls < MaxGlut

\* Lock up to InsertIfMissing
Lock(p) ==
  /\ CanCallGlut(p)
  /\ \E base \in CallTokens, timeout \in Timeouts, ttl \in TTLs,
        flaw \in {"none", "args"} :
       LET token == IF base = "" THEN NewToken(p) ELSE base
           deadline == GetDeadline(glut.now, ttl)
           locked == glut.now + timeout
           model == [ex |-> TRUE, data |-> 0, deadline |-> deadline,
                     locked |-> locked, token |-> token]
       IN glut' =
            IF flaw = "args"
            THEN GlutReturns(glut, p, "Lock", base, FALSE, "error")
            ELSE IF timeout = 0
            THEN GlutReturns(glut, p, "Lock", token, FALSE, "error")
            ELSE IF DeadlineBefore(deadline, locked)
            THEN GlutReturns(glut, p, "Lock", token, FALSE, "error")
            ELSE IF ~glut.val.ex
            THEN GlutReturns([glut EXCEPT !.val = model], p, "Lock", token,
                             TRUE, "none")
            ELSE [glut EXCEPT !.procs[p] =
                    [pc |-> "update", token |-> token, locked |-> locked,
                     deadline |-> deadline]]
  /\ UNCHANGED <<coreVars, stores, idcall, flagcall, spark>>

\* Lock from UpdateFirst on
LockUpdate(p) ==
  /\ glut.procs[p].pc = "update"
  /\ \E flaw \in {"none", "invalid"} :
       LET me == glut.procs[p]
           found == Lockable(glut.val, me.token, glut.now)
           val == IF found
                  THEN [glut.val EXCEPT !.deadline = me.deadline,
                                        !.locked = me.locked,
                                        !.token = me.token]
                  ELSE glut.val
           valid == IF found THEN ValidAfter(val, flaw = "none")
                    ELSE flaw = "none"
       IN glut' =
            IF ~valid
            THEN GlutReturns([glut EXCEPT !.val = val], p, "Lock", me.token,
                             FALSE, "error")
            ELSE GlutReturns([glut EXCEPT !.val = val], p, "Lock", me.token,
                             found, "none")
  /\ UNCHANGED <<coreVars, stores, idcall, flagcall, spark>>

SetLocked(p) ==
  /\ CanCallGlut(p)
  /\ \E token \in CallTokens, ttl \in TTLs, flaw \in Flaws :
       LET found == Holds(glut.val, token, glut.now)
           val == IF found
                  THEN [glut.val EXCEPT !.data = NewData,
                          !.deadline = GetDeadline(glut.now, ttl)]
                  ELSE glut.val
       IN glut' =
            IF flaw = "args"
            THEN GlutReturns(glut, p, "SetLocked", token, FALSE, "error")
            ELSE IF token = ""
            THEN GlutReturns(glut, p, "SetLocked", token, FALSE,
                             "missing token")
            ELSE IF flaw = "invalid"
            THEN GlutReturns(glut, p, "SetLocked", token, FALSE, "error")
            ELSE GlutReturns([glut EXCEPT !.val = val], p, "SetLocked",
                             token, found, "none")
  /\ UNCHANGED <<coreVars, stores, idcall, flagcall, spark>>

GetLocked(p) ==
  /\ CanCallGlut(p)
  /\ \E token \in CallTokens, flaw \in Flaws :
       LET found == Holds(glut.val, token, glut.now)
       IN glut' =
            IF flaw = "args"
            THEN GlutReturns(glut, p, "GetLocked", token, FALSE, "error")
            ELSE IF token = ""
            THEN GlutReturns(glut, p, "GetLocked", token, FALSE,
                             "missing token")
            ELSE IF ~found
            THEN GlutReturns(glut, p, "GetLocked", token, FALSE, "none")
            ELSE IF ~ValidAfter(glut.val, flaw = "none")
            THEN GlutReturns(glut, p, "GetLocked", token, FALSE, "error")
            ELSE GlutReturns(glut, p, "GetLocked", token, TRUE, "none")
  /\ UNCHANGED <<coreVars, stores, idcall, flagcall, spark>>

DeleteLocked(p) ==
  /\ CanCallGlut(p)
  /\ \E token \in CallTokens, flaw \in {"none", "args"} :
       LET deleted == Holds(glut.val, token, glut.now)
           val == IF deleted THEN NoValue ELSE glut.val
       IN glut' =
            IF flaw = "args"
            THEN GlutReturns(glut, p, "DeleteLocked", token, FALSE, "error")
            ELSE IF token = ""
            THEN GlutReturns(glut, p, "DeleteLocked", token, FALSE,
                             "missing token")
            ELSE GlutReturns([glut EXCEPT !.val = val], p, "DeleteLocked",
                             token, deleted, "none")
  /\ UNCHANGED <<coreVars, stores, idcall, flagcall, spark>>

Unlock(p) ==
  /\ CanCallGlut(p)
  /\ \E token \in CallTokens, ttl \in TTLs, flaw \in {"none", "args"} :
       LET found == Holds(glut.val, token, glut.now)
           val == IF found
                  THEN [glut.val EXCEPT !.locked = NoTime, !.token = "",
                          !.deadline = GetDeadline(glut.now, ttl)]
                  ELSE glut.val
       IN glut' =
            IF flaw = "args"
            THEN GlutReturns(glut, p, "Unlock", token, FALSE, "error")
            ELSE IF token = ""
            THEN GlutReturns(glut, p, "Unlock", token, FALSE,
                             "missing token")
            ELSE GlutReturns([glut EXCEPT !.val = val], p, "Unlock", token,
                             found, "none")
  /\ UNCHANGED <<coreVars, stores, idcall, flagcall, spark>>

\* time passes
Tick ==
  /\ glut.now < MaxTime
  /\ glut' = [glut EXCEPT !.now = @ + 1]
  /\ UNCHANGED <<coreVars, stores, idcall, flagcall, spark>>

\* the values the key has when the calls begin: none, one that is not
\* locked, and one that Lock has locked with A's token for one unit of time
InitValues ==
  {NoValue, [NoValue EXCEPT !.ex = TRUE, !.data = 2]}
    \cup {[NoValue EXCEPT !.ex = TRUE, !.data = d, !.token = "A",
                          !.locked = 2] : d \in {0, 2}}

InitGlut ==
  /\ InitIdle
  /\ stream = NoStream
  /\ idcall = NoIdCall
  /\ flagcall = NoFlagCall
  /\ spark = NoSpark
  /\ \E val \in InitValues : glut = [NoGlut EXCEPT !.val = val]

NextGlut ==
  \/ Tick
  \/ \E p \in GlutProcs :
       \/ Lock(p)
       \/ LockUpdate(p)
       \/ SetLocked(p)
       \/ GetLocked(p)
       \/ DeleteLocked(p)
       \/ Unlock(p)

SpecGlut == InitGlut /\ [][NextGlut]_vars

\* a call of glut returns in this step
GlutReturned == glut'.ncalls = glut.ncalls + 1

\* the stored value is locked by another token than the one given and its
\* lock time has not passed
LockedByOther(val, token, now) ==
  /\ val.ex
  /\ val.token \notin {"", token}
  /\ val.locked # NoTime
  /\ val.locked >= now

HeldBy(val, token, now) ==
  /\ val.ex
  /\ token # ""
  /\ val.token = token
  /\ val.locked # NoTime
  /\ val.locked > now

\* a Lock returns from its UpdateFirst in this step
LockUpdated ==
  \E p \in GlutProcs :
    glut.procs[p].pc = "update" /\ glut'.procs[p].pc = "idle"

\* C37: SetLocked, GetLocked, DeleteLocked and Unlock return true and
\* change the stored value only if it has the caller's token and a lock
\* time in the future, and then they do unless they return an error; with
\* an empty token they return an error; with another token or a lock time
\* that is not in the future they return false and leave the value as it
\* is. A successful Unlock clears token and lock time and keeps the data,
\* and the UpdateFirst of a Lock with any token on an unlocked value stores
\* that token, Lock returning true unless the value fails validation.
C37_LockedOnly ==
  [][/\ (GlutReturned /\ glut'.ret.op \in
           {"SetLocked", "GetLocked", "DeleteLocked", "Unlock"}) =>
          LET val == glut.val
              ret == glut'.ret
              held == HeldBy(val, ret.token, glut.now)
          IN /\ (ret.ok \/ glut'.val # val) => held
             /\ ret.token = "" => (~ret.ok /\ ret.err # "none")
             /\ (ret.token # "" /\ ~held) => (~ret.ok /\ glut'.val = val)
             /\ (held /\ ret.err = "none") => ret.ok
             /\ (ret.op = "Unlock" /\ ret.ok) =>
                  /\ glut'.val.ex
                  /\ glut'.val.token = ""
                  /\ glut'.val.locked = NoTime
                  /\ glut'.val.data = val.data
             /\ (ret.op = "SetLocked" /\ ret.ok) =>
                  /\ glut'.val.data = NewData
                  /\ glut'.val.token = val.token
                  /\ glut'.val.locked = val.locked
             /\ (ret.op = "DeleteLocked" /\ ret.ok) => ~glut'.val.ex
             /\ ret.op = "GetLocked" => glut'.val = val
     /\ (LockUpdated /\ glut.val.ex /\ glut.val.token = "") =>
          /\ glut'.val.token = glut'.ret.token
          /\ glut'.ret.token # ""
          /\ glut'.ret.err = "none" => glut'.ret.ok]_vars

\* Unlock with A's token has returned true at a time when the lock had not
\* timed out, and the value is there, unlocked, for a Lock with B's token
C37_Witness ==
  /\ glut.ret.op = "Unlock"
  /\ glut.ret.token = "A"
  /\ glut.ret.ok
  /\ glut.now = 1
  /\ glut.val.ex
  /\ glut.val.token = ""
  /\ glut.val.locked = NoTime
  /\ Lockable(glut.val, "B", glut.now)

\* ================================================================= spark
\* The manager of spark: the goroutine run, connection handlers (handle),
\* callers of broadcast, and close. A handler and its queue have one name.
\* The channels of the program have room for ten; here the queues have room
\* for QueueCap events and the manager's channels for ChanCap.
QueueCap == 1
ChanCap == 1
MaxEvents == 2

Handlers == {"h1", "h2"}

\* a loop that closes a full queue and keeps it in the map
OfferTo_KeepsQueue(sp, q, e) ==
  IF Len(sp.buf[q]) < QueueCap
  THEN [sp EXCEPT !.buf[q] = Append(@, e)]
  ELSE [sp EXCEPT !.nclose[q] = @ + 1]

\* the select in run's loop over the queues: a queue with room gets the
\* event, a full one is closed and deleted
OfferTo(sp, q, e) ==
  IF Len(sp.buf[q]) < QueueCap
  THEN [sp EXCEPT !.buf[q] = Append(@, e)]
  ELSE [sp EXCEPT !.nclose[q] = @ + 1, !.queues = @ \ {q}]

\* run's loop over the queues for one event
RECURSIVE Offer(_, _, _)
Offer(sp, qs, e) ==
  IF qs = {} THEN sp
  ELSE LET q == CHOOSE x \in qs : TRUE
       IN Offer(OfferTo(sp, q, e), qs \ {q}, e)

\* close of every queue of a set
RECURSIVE CloseAll(_, _)
CloseAll(sp, qs) ==
  IF qs = {} THEN sp
  ELSE LET q == CHOOSE x \in qs : TRUE
       IN CloseAll([sp EXCEPT !.nclose[q] = @ + 1], qs \ {q})

\* run: case q := <-m.subscribes
RunSubscribe ==
  /\ spark.run = "loop"
  /\ spark.subscribes # <<>>
  /\ spark' = [spark EXCEPT !.subscribes = Tail(@),
                            !.queues = @ \cup {Head(spark.subscribes)}]
  /\ UNCHANGED <<coreVars, stores, idcall, flagcall, glut>>

\* run: case e := <-m.events
RunEvent ==
  /\ spark.run = "loop"
  /\ spark.events # <<>>
  /\ spark' = Offer([spark EXCEPT !.events = Tail(@)], spark.queues,
                    Head(spark.events))
  /\ UNCHANGED <<coreVars, stores, idcall, flagcall, glut>>

\* run: case q := <-m.unsubscribes
RunUnsubscribe ==
  /\ spark.run = "loop"
  /\ spark.unsubscribes # <<>>
  /\ spark' = [spark EXCEPT !.unsubscribes = Tail(@),
                            !.queues = @ \ {Head(spark.unsubscribes)}]
  /\ UNCHANGED <<coreVars, stores, idcall, flagcall, glut>>

\* run: case <-m.tomb.Dying(): the queues are closed, subscribes is closed
\* and the queues left in it are closed, and run returns
RunDying ==
  /\ spark.run = "loop"
  /\ ~spark.alive
  /\ spark' =
       [CloseAll(spark, spark.queues \cup
                   {spark.subscribes[i] : i \in DOMAIN spark.subscribes})
          EXCEPT !.subsOpen = FALSE, !.subscribes = <<>>, !.run = "done"]
  /\ UNCHANGED <<coreVars, stores, idcall, flagcall, glut>>

\* broadcast: the event goes to events, or the manager is dying
Broadcast ==
  /\ spark.nev < MaxEvents
  /\ \/ /\ Len(spark.events) < ChanCap
        /\ spark' = [spark EXCEPT !.events = Append(@, spark.nev + 1),
                                  !.nev = @ + 1]
     \/ /\ ~spark.alive
        /\ spark' = [spark EXCEPT !.nev = @ + 1]
  /\ UNCHANGED <<coreVars, stores, idcall, flagcall, glut>>

\* handle up to the upgrade of the connection
HandleAlive(h) ==
  /\ spark.pc[h] = "idle"
  /\ spark' = IF ~spark.alive
              THEN [spark EXCEPT !.pc[h] = "done", !.ret[h] = "dying"]
              ELSE [spark EXCEPT !.pc[h] = "upgrade"]
  /\ UNCHANGED <<coreVars, stores, idcall, flagcall, glut>>

\* the upgrade fails, or the handler makes its queue
HandleUpgrade(h) ==
  /\ spark.pc[h] = "upgrade"
  /\ \E ok \in BOOLEAN :
       spark' = IF ok THEN [spark EXCEPT !.pc[h] = "register"]
                ELSE [spark EXCEPT !.pc[h] = "done", !.ret[h] = "nil"]
  /\ UNCHANGED <<coreVars, stores, idcall, flagcall, glut>>

\* the select that registers the queue: a send on subscribes, which panics
\* if subscribes is closed, or the dying error
HandleRegister(h) ==
  /\ spark.pc[h] = "register"
  /\ \/ /\ spark.subsOpen
        /\ Len(spark.subscribes) < ChanCap
        /\ spark' = [spark EXCEPT !.subscribes = Append(@, h),
                                  !.pc[h] = "serve"]
     \/ /\ ~spark.subsOpen
        /\ spark' = [spark EXCEPT !.pc[h] = "done", !.ret[h] = "panic"]
     \/ /\ ~spark.alive
        /\ spark' = [spark EXCEPT !.pc[h] = "done", !.ret[h] = "dying"]
  /\ UNCHANGED <<coreVars, stores, idcall, flagcall, glut>>

\* the writer loop: an event of the queue is taken and written, the queue
\* is closed, the connection or a request fails, or the manager is dying
HandleServe(h) ==
  /\ spark.pc[h] = "serve"
  /\ \/ /\ spark.buf[h] # <<>>
        /\ \E ok \in BOOLEAN :
             spark' = [spark EXCEPT
                         !.buf[h] = Tail(@),
                         !.seen[h] = Head(spark.buf[h]),
                         !.pc[h] = IF ok THEN "serve" ELSE "unsubscribe",
                         !.ret[h] = IF ok THEN @ ELSE "error"]
     \/ /\ spark.buf[h] = <<>>
        /\ spark.nclose[h] > 0
        /\ spark' = [spark EXCEPT !.pc[h] = "unsubscribe", !.ret[h] = "nil"]
     \/ spark' = [spark EXCEPT !.pc[h] = "unsubscribe", !.ret[h] = "error"]
     \/ /\ ~spark.alive
        /\ spark' = [spark EXCEPT !.pc[h] = "unsubscribe", !.ret[h] = "nil"]
  /\ UNCHANGED <<coreVars, stores, idcall, flagcall, glut>>

\* the deferred select: the queue goes to unsubscribes, or the manager is
\* dying
HandleUnsubscribe(h) ==
  /\ spark.pc[h] = "unsubscribe"
  /\ \/ /\ Len(spark.unsubscribes) < ChanCap
        /\ spark' = [spark EXCEPT !.unsubscribes = Append(@, h),
                                  !.pc[h] = "done"]
     \/ /\ ~spark.alive
        /\ spark' = [spark EXCEPT !.pc[h] = "done"]
  /\ UNCHANGED <<coreVars, stores, idcall, flagcall, glut>>

\* close kills the tomb and waits for run
SparkClose ==
  /\ spark.closer = "idle"
  /\ spark' = [spark EXCEPT !.alive = FALSE, !.closer = "wait"]
  /\ UNCHANGED <<coreVars, stores, idcall, flagcall, glut>>

SparkCloseReturn ==
  /\ spark.closer = "wait"
  /\ spark.run = "done"
  /\ spark' = [spark EXCEPT !.closer = "done"]
  /\ UNCHANGED <<coreVars, stores, idcall, flagcall, glut>>

InitSpark ==
  /\ InitIdle
  /\ stream = NoStream
  /\ idcall = NoIdCall
  /\ flagcall = NoFlagCall
  /\ glut = NoGlut
  /\ spark = NoSpark

NextSpark ==
  \/ RunSubscribe
  \/ RunEvent
  \/ RunUnsubscribe
  \/ RunDying
  \/ Broadcast
  \/ SparkClose
  \/ SparkCloseReturn
  \/ \E h \in Handlers :
       \/ HandleAlive(h)
       \/ HandleUpgrade(h)
       \/ HandleRegister(h)
       \/ HandleServe(h)
       \/ HandleUnsubscribe(h)

SpecSpark == InitSpark /\ [][NextSpark]_vars

\* SpecSparkLive: the goroutines take their steps. What is weakly fair is
\* every case of run's select, the cases of a handler's selects that a
\* channel or the tomb makes ready, and the return of close; a failure of
\* the connection, broadcast and close are up to the environment.
ServeStep(h) == HandleServe(h) /\ spark'.ret[h] # "error"

SpecSparkLive ==
  /\ InitSpark
  /\ [][NextSpark]_vars
  /\ WF_vars(RunSubscribe)
  /\ WF_vars(RunEvent)
  /\ WF_vars(RunUnsubscribe)
  /\ WF_vars(RunDying)
  /\ WF_vars(SparkCloseReturn)
  /\ \A h \in Handlers :
       /\ WF_vars(ServeStep(h))
       /\ WF_vars(HandleUnsubscribe(h))

\* run takes an event from events in this step
Fans == spark.run = "loop" /\ Len(spark'.events) < Len(spark.events)

\* the events of a sequence are in the order of their broadcast
InOrder(seq) == \A i, j \in DOMAIN seq : i < j => seq[i] < seq[j]

C39_NoSendOnClosed ==
  /\ \A h \in Handlers :
       /\ spark.ret[h] # "panic"
       /\ spark.nclose[h] <= 1
       /\ (spark.run = "done" /\ spark.pc[h] \in {"serve"})
            => spark.nclose[h] = 1
  /\ spark.closer = "done" => spark.run = "done"

\* a handler has found the manager alive, and when it came to register its
\* queue run had closed subscribes: the send was chosen and has panicked
C39_Panic ==
  /\ spark.ret["h1"] = "panic"
  /\ spark.pc["h1"] = "done"
  /\ ~spark.alive
  /\ ~spark.subsOpen
  /\ spark.run = "done"
  /\ spark.nclose["h1"] = 0



====
